---- MODULE Spec2Model ----
(***************************************************************************)
(* Model of the computer-use template of create-kernel-app: the sampling   *)
(* loop (loop.py), the tool registry (tools/collection.py), the computer   *)
(* and playwright tool adapters, and the two context policies (prompt      *)
(* cache markers, image retention) in their loop.py and utils/ variants,   *)
(* and of its openagi template: the browser session, the typing and the    *)
(* coordinate scaling of the action handler.                               *)
(***************************************************************************)
EXTENDS Integers, Sequences, FiniteSets, TLC

VARIABLES
    messages,                    \* the conversation history (list of message dicts)
    pc,                          \* position of sampling_loop / of a policy run
    stop_reason,                 \* response.stop_reason of the turn in progress ("" if none)
    tool_result_content,         \* results collected for the current turn
    idx,                         \* index in response_params of the tool_use being run
    only_n_most_recent_images,   \* the loop's local of that name (0 is None / 0)
    image_truncation_threshold,  \* the loop's local of that name
    arg_images,                  \* the caller-supplied only_n_most_recent_images
    calls,                       \* model calls issued so far
    exc,                         \* the exception that left the loop ("" if none)
    dispatched,                  \* tool_use ids handed to ToolCollection.run, in order
    prev,                        \* the history before the policy ran / as the
                                 \* caller passed it to the loop
    arg,                         \* runs of one function on its own: its argument
    ret                          \* ... and what it returned or raised

vars == << messages, pc, stop_reason, tool_result_content, idx,
           only_n_most_recent_images, image_truncation_threshold, arg_images,
           calls, exc, dispatched, prev, arg, ret >>

(***************************************************************************)
(* Bounds of the model.                                                    *)
(***************************************************************************)
MaxCalls == 2        \* model calls per run of the loop
MaxBlocks == 2       \* content blocks per model response
MaxHist == 5         \* messages of a history given to the cache policy
MaxMsgs == 4         \* messages of a history given to the image policy
MaxKeep == 4         \* largest images_to_keep given to the image policy
MaxChunk == 3        \* largest min_removal_threshold given to the image policy

(***************************************************************************)
(* Python values.  A value is tagged with its type; n holds a number,      *)
(* s a string.                                                             *)
(***************************************************************************)
None == [t |-> "none", n |-> 0, s |-> ""]
PInt(k) == [t |-> "int", n |-> k, s |-> ""]
PStr(x) == [t |-> "str", n |-> 0, s |-> x]
\* a float is held in halves: PFloat(3) is 1.5
PFloat(h) == [t |-> "float", n |-> h, s |-> ""]

\* isinstance(v, (int, float)), and twice the number v
IsNumber(v) == v.t \in {"int", "float"}
Twice(v) == IF v.t = "int" THEN 2 * v.n ELSE v.n

IsNone(v) == v.t = "none"

\* A coordinate argument: absent, a tuple, a list, or some other object.
NoCoord == [form |-> "none", xs |-> << >>]
Tuple(xs) == [form |-> "tuple", xs |-> xs]
List(xs) == [form |-> "list", xs |-> xs]

(***************************************************************************)
(* Content blocks.  Every block is a record of one shape; the fields a     *)
(* block type does not have hold their neutral value.                      *)
(*   text / thinking : text                                                *)
(*   tool_use        : id, name, input                                     *)
(*   tool_result     : id (tool_use_id), content (list) or text with       *)
(*                     is_str (string content), is_error                   *)
(*   cache_control   : TRUE when the block carries the ephemeral marker    *)
(*   input           : the name of the tool input in ToolInput ("" for the  *)
(*                     blocks that have none)                              *)
(***************************************************************************)
NoInput == ""

TextBlock(txt) ==
    [type |-> "text", id |-> 0, name |-> "", input |-> NoInput, text |-> txt,
     content |-> << >>, is_str |-> FALSE, is_error |-> FALSE,
     cache_control |-> FALSE]

ToolUseBlock(id, name, input) ==
    [type |-> "tool_use", id |-> id, name |-> name, input |-> input, text |-> "",
     content |-> << >>, is_str |-> FALSE, is_error |-> FALSE,
     cache_control |-> FALSE]

ImageTop(data) ==
    [type |-> "image", id |-> data, name |-> "", input |-> NoInput, text |-> "",
     content |-> << >>, is_str |-> FALSE, is_error |-> FALSE,
     cache_control |-> FALSE]

\* The blocks inside a tool_result's list content.
InnerText(txt) == [type |-> "text", text |-> txt, data |-> 0]
InnerImage(data) == [type |-> "image", text |-> "", data |-> data]

\* (a message that is always a user turn)
Message_as_user(role, content) ==
    [role |-> "user", is_str |-> FALSE, content |-> content]

\* A message: content is a list of blocks, or a plain string (is_str).
Message(role, content) == [role |-> role, is_str |-> FALSE, content |-> content]
StrMessage(role) == [role |-> role, is_str |-> TRUE, content |-> << >>]

Last(s) == s[Len(s)]

(***************************************************************************)
(* Context policy 1: cache-control injection.                              *)
(***************************************************************************)
breakpoints == 3

\* (a marking that keeps only the marked block of the turn)
SetLastCacheControl_only(m, flag) ==
    [m EXCEPT !.content = << [m.content[Len(m.content)] EXCEPT !.cache_control = flag] >>]

\* content[-1]["cache_control"] = {"type": "ephemeral"}  /  content[-1].pop(...)
\* (the content is a non-empty list)
SetLastCacheControl(m, flag) ==
    [m EXCEPT !.content[Len(m.content)].cache_control = flag]

\* loop.py: the walk `for message in reversed(messages)`, from index i down,
\* with breakpoints_remaining = left.
RECURSIVE loop_inject_walk(_, _, _)
loop_inject_walk_keep4(msgs, i, left) ==
    IF i = 0 THEN msgs
    ELSE IF msgs[i].role = "user" /\ ~msgs[i].is_str
         THEN IF left # 0
              THEN loop_inject_walk(
                       [msgs EXCEPT ![i] = SetLastCacheControl(msgs[i], TRUE)],
                       i - 1, left - 1)
              ELSE msgs
         ELSE loop_inject_walk(msgs, i - 1, left)

\* (a walk that does not count a turn that already carries a marker)
loop_inject_walk_skip_marked(msgs, i, left) ==
    IF i = 0 THEN msgs
    ELSE IF msgs[i].role = "user" /\ ~msgs[i].is_str
         THEN IF msgs[i].content[Len(msgs[i].content)].cache_control
              THEN loop_inject_walk(msgs, i - 1, left)
              ELSE IF left # 0
              THEN loop_inject_walk(
                       [msgs EXCEPT ![i] = SetLastCacheControl(msgs[i], TRUE)],
                       i - 1, left - 1)
              ELSE [msgs EXCEPT ![i] = SetLastCacheControl(msgs[i], FALSE)]
         ELSE loop_inject_walk(msgs, i - 1, left)

loop_inject_walk(msgs, i, left) ==
    IF i = 0 THEN msgs
    ELSE IF msgs[i].role = "user" /\ ~msgs[i].is_str
         THEN IF left # 0
              THEN loop_inject_walk(
                       [msgs EXCEPT ![i] = SetLastCacheControl(msgs[i], TRUE)],
                       i - 1, left - 1)
              ELSE \* pop the marker of the first turn past the budget, then break
                   [msgs EXCEPT ![i] = SetLastCacheControl(msgs[i], FALSE)]
         ELSE loop_inject_walk(msgs, i - 1, left)

loop_inject_prompt_caching_off(msgs) == msgs

loop_inject_prompt_caching(msgs) == loop_inject_walk(msgs, Len(msgs), breakpoints)

\* utils/message_processing.py: the same walk; a turn that is not a user turn
\* with list content is skipped with `continue`, an empty content is left alone.
RECURSIVE inject_walk(_, _, _)
inject_walk(msgs, i, left) ==
    IF i = 0 THEN msgs
    ELSE IF msgs[i].role # "user" \/ msgs[i].is_str
         THEN inject_walk(msgs, i - 1, left)
         ELSE IF left > 0
              THEN inject_walk(
                       IF msgs[i].content # << >>
                       THEN [msgs EXCEPT ![i] = SetLastCacheControl(msgs[i], TRUE)]
                       ELSE msgs,
                       i - 1, left - 1)
              ELSE IF msgs[i].content # << >>
                   THEN [msgs EXCEPT ![i] = SetLastCacheControl(msgs[i], FALSE)]
                   ELSE msgs

inject_prompt_caching(msgs) == inject_walk(msgs, Len(msgs), breakpoints)

(***************************************************************************)
(* Context policy 2: image retention.                                      *)
(***************************************************************************)
\* Number of image blocks in one tool_result's content (a string content
\* holds no dict, so it counts 0).
RECURSIVE CountImages(_)
CountImages(c) ==
    IF c = << >> THEN 0
    ELSE (IF Head(c).type = "image" THEN 1 ELSE 0) + CountImages(Tail(c))

\* total over the tool_result blocks of one message content
RECURSIVE BlockImages(_)
BlockImages(bs) ==
    IF bs = << >> THEN 0
    ELSE (IF Head(bs).type = "tool_result" /\ ~Head(bs).is_str
          THEN CountImages(Head(bs).content) ELSE 0) + BlockImages(Tail(bs))

\* total_images: over every tool_result block of every list-content message
RECURSIVE TotalImages(_)
TotalImages(msgs) ==
    IF msgs = << >> THEN 0
    ELSE (IF Head(msgs).is_str THEN 0 ELSE BlockImages(Head(msgs).content))
         + TotalImages(Tail(msgs))

\* The inner loop over one tool_result's content: an image is dropped while
\* images_to_remove (left) is positive.  Gives the new content and what is left.
RECURSIVE FilterContent(_, _)
FilterContent_nonneg(c, left) ==
    IF c = << >> THEN [content |-> << >>, left |-> left]
    ELSE IF Head(c).type = "image" /\ left >= 0
         THEN FilterContent(Tail(c), left - 1)
         ELSE LET r == FilterContent(Tail(c), left)
              IN  [content |-> << Head(c) >> \o r.content, left |-> r.left]

FilterContent(c, left) ==
    IF c = << >> THEN [content |-> << >>, left |-> left]
    ELSE IF Head(c).type = "image" /\ left > 0
         THEN FilterContent(Tail(c), left - 1)
         ELSE LET r == FilterContent(Tail(c), left)
              IN  [content |-> << Head(c) >> \o r.content, left |-> r.left]

\* The tool_result blocks of one message, in order.
RECURSIVE FilterBlocks(_, _)
FilterBlocks(bs, left) ==
    IF bs = << >> THEN [content |-> << >>, left |-> left]
    ELSE IF Head(bs).type = "tool_result" /\ ~Head(bs).is_str
         THEN LET f == FilterContent(Head(bs).content, left)
                  r == FilterBlocks(Tail(bs), f.left)
              IN  [content |-> << [Head(bs) EXCEPT !.content = f.content] >>
                                  \o r.content,
                   left |-> r.left]
         ELSE LET r == FilterBlocks(Tail(bs), left)
              IN  [content |-> << Head(bs) >> \o r.content, left |-> r.left]

\* The messages, oldest first.
RECURSIVE FilterMessages(_, _)
FilterMessages(msgs, left) ==
    IF msgs = << >> THEN << >>
    ELSE IF Head(msgs).is_str
         THEN << Head(msgs) >> \o FilterMessages(Tail(msgs), left)
         ELSE LET f == FilterBlocks(Head(msgs).content, left)
              IN  << [Head(msgs) EXCEPT !.content = f.content] >>
                      \o FilterMessages(Tail(msgs), f.left)

\* loop.py: images_to_remove = total - keep; images_to_remove -= that % chunk
loop_images_to_remove_nochunk(total, keep, chunk) == total - keep

loop_images_to_remove(total, keep, chunk) ==
    (total - keep) - ((total - keep) % chunk)

loop_maybe_filter_to_n_most_recent_images(msgs, keep, chunk) ==
    FilterMessages(msgs, loop_images_to_remove(TotalImages(msgs), keep, chunk))

\* utils/message_processing.py: (total - keep) // chunk * chunk, and an early
\* return when images_to_keep is falsy.
images_to_remove(total, keep, chunk) == ((total - keep) \div chunk) * chunk

maybe_filter_to_n_most_recent_images(msgs, keep, chunk) ==
    IF keep = 0 THEN msgs
    ELSE FilterMessages(msgs, images_to_remove(TotalImages(msgs), keep, chunk))

(***************************************************************************)
(* Histories handed to a policy on its own.  A history is built from       *)
(* message templates; the images inside tool results are numbered 1, 2, .. *)
(* in history order (their data), so that each image can be told apart.    *)
(***************************************************************************)
ToolResultList(id, content) ==
    [type |-> "tool_result", id |-> id, name |-> "", input |-> NoInput,
     text |-> "", content |-> content, is_str |-> FALSE, is_error |-> FALSE,
     cache_control |-> FALSE]

ToolResultStr(id, txt) ==
    [type |-> "tool_result", id |-> id, name |-> "", input |-> NoInput,
     text |-> txt, content |-> << >>, is_str |-> TRUE, is_error |-> TRUE,
     cache_control |-> FALSE]

\* the content of a tool result of the given shape ("i" image, "t" text),
\* its images numbered from n + 1
RECURSIVE ShapeContent(_, _)
ShapeContent(shape, n) ==
    IF shape = << >> THEN << >>
    ELSE IF Head(shape) = "i"
         THEN << InnerImage(n + 1) >> \o ShapeContent(Tail(shape), n + 1)
         ELSE << InnerText("out") >> \o ShapeContent(Tail(shape), n)

ImageTemplates == {"assistant", "mixed", "one", "two", "three"}

\* the message of a template, its images numbered from n + 1
TemplateMessage(tpl, n) ==
    CASE tpl = "assistant" ->
           Message("assistant", << ToolUseBlock(1, "computer", NoInput) >>)
      [] tpl = "mixed" ->
           Message("user", << TextBlock("t"), ImageTop(0), ToolResultStr(1, "err") >>)
      [] tpl = "one" ->
           Message("user", << ToolResultList(1, ShapeContent(<< "i" >>, n)) >>)
      [] tpl = "two" ->
           Message("user", << ToolResultList(1, ShapeContent(<< "t", "i" >>, n)),
                              ToolResultList(2, ShapeContent(<< "i", "i" >>, n + 1)) >>)
      [] tpl = "three" ->
           Message("user", << ToolResultList(1, ShapeContent(<< "i", "t", "i", "i" >>, n)) >>)

TemplateImages(tpl) ==
    CASE tpl = "one" -> 1 [] tpl = "two" -> 3 [] tpl = "three" -> 3 [] OTHER -> 0

RECURSIVE ImageHistory(_, _)
ImageHistory(tpls, n) ==
    IF tpls = << >> THEN << >>
    ELSE << TemplateMessage(Head(tpls), n) >>
         \o ImageHistory(Tail(tpls), n + TemplateImages(Head(tpls)))

SeqsUpTo(S, n) == UNION { [1..k -> S] : k \in 0..n }

\* Histories for the cache policy: user turns with list content (one or two
\* blocks, the last one marked or not), a user turn with string content, and
\* assistant turns.
Marked(m) == SetLastCacheControl(m, TRUE)

CacheTurns ==
    { Message("user", << TextBlock("t") >>),
      Marked(Message("user", << TextBlock("t") >>)),
      Message("user", << TextBlock("t"), ToolResultStr(1, "err") >>),
      Marked(Message("user", << TextBlock("t"), ToolResultStr(1, "err") >>)),
      StrMessage("user"),
      Message("assistant", << TextBlock("a") >>) }

(***************************************************************************)
(* The policies run on their own: one application to a drawn history.      *)
(***************************************************************************)
PolicyIdle ==
    /\ stop_reason = "" /\ tool_result_content = << >> /\ idx = 0
    /\ arg_images = 0 /\ calls = 0 /\ exc = "" /\ dispatched = << >>
    /\ arg = None /\ ret = None

InitCache ==
    /\ PolicyIdle
    /\ pc = "input"
    /\ messages \in SeqsUpTo(CacheTurns, MaxHist)
    /\ prev = messages
    /\ only_n_most_recent_images = 0
    /\ image_truncation_threshold = 0

ApplyLoopInject ==
    /\ pc = "input"
    /\ messages' = loop_inject_prompt_caching(messages)
    /\ pc' = "loop_out"
    /\ UNCHANGED << stop_reason, tool_result_content, idx, only_n_most_recent_images,
                    image_truncation_threshold, arg_images, calls, exc, dispatched,
                    prev >>
    /\ UNCHANGED << arg, ret >>

ApplyInject ==
    /\ pc = "input"
    /\ messages' = inject_prompt_caching(messages)
    /\ pc' = "utils_out"
    /\ UNCHANGED << stop_reason, tool_result_content, idx, only_n_most_recent_images,
                    image_truncation_threshold, arg_images, calls, exc, dispatched,
                    prev >>
    /\ UNCHANGED << arg, ret >>

\* the injection applied a second time, right after the first
ApplyLoopInjectAgain ==
    /\ pc = "loop_out"
    /\ prev' = messages
    /\ messages' = loop_inject_prompt_caching(messages)
    /\ pc' = "loop_twice"
    /\ UNCHANGED << stop_reason, tool_result_content, idx, only_n_most_recent_images,
                    image_truncation_threshold, arg_images, calls, exc, dispatched >>
    /\ UNCHANGED << arg, ret >>

ApplyInjectAgain ==
    /\ pc = "utils_out"
    /\ prev' = messages
    /\ messages' = inject_prompt_caching(messages)
    /\ pc' = "utils_twice"
    /\ UNCHANGED << stop_reason, tool_result_content, idx, only_n_most_recent_images,
                    image_truncation_threshold, arg_images, calls, exc, dispatched >>
    /\ UNCHANGED << arg, ret >>

NextCache ==
    ApplyLoopInject \/ ApplyInject \/ ApplyLoopInjectAgain \/ ApplyInjectAgain

SpecCache == InitCache /\ [][NextCache]_vars

InitImages ==
    /\ PolicyIdle
    /\ pc = "input"
    /\ \E tpls \in SeqsUpTo(ImageTemplates, MaxMsgs) : messages = ImageHistory(tpls, 0)
    /\ prev = messages
    /\ only_n_most_recent_images \in 1..MaxKeep
    /\ image_truncation_threshold \in 1..MaxChunk

ApplyLoopFilter ==
    /\ pc = "input"
    /\ messages' = loop_maybe_filter_to_n_most_recent_images(
                       messages, only_n_most_recent_images,
                       image_truncation_threshold)
    /\ pc' = "loop_out"
    /\ UNCHANGED << stop_reason, tool_result_content, idx, only_n_most_recent_images,
                    image_truncation_threshold, arg_images, calls, exc, dispatched,
                    prev >>
    /\ UNCHANGED << arg, ret >>

ApplyFilter ==
    /\ pc = "input"
    /\ messages' = maybe_filter_to_n_most_recent_images(
                       messages, only_n_most_recent_images,
                       image_truncation_threshold)
    /\ pc' = "utils_out"
    /\ UNCHANGED << stop_reason, tool_result_content, idx, only_n_most_recent_images,
                    image_truncation_threshold, arg_images, calls, exc, dispatched,
                    prev >>
    /\ UNCHANGED << arg, ret >>

\* the pruning applied a second time, with the same limit and chunk
ApplyLoopFilterAgain ==
    /\ pc = "loop_out"
    /\ prev' = messages
    /\ messages' = loop_maybe_filter_to_n_most_recent_images(
                       messages, only_n_most_recent_images,
                       image_truncation_threshold)
    /\ pc' = "loop_twice"
    /\ UNCHANGED << stop_reason, tool_result_content, idx, only_n_most_recent_images,
                    image_truncation_threshold, arg_images, calls, exc, dispatched >>
    /\ UNCHANGED << arg, ret >>

ApplyFilterAgain ==
    /\ pc = "utils_out"
    /\ prev' = messages
    /\ messages' = maybe_filter_to_n_most_recent_images(
                       messages, only_n_most_recent_images,
                       image_truncation_threshold)
    /\ pc' = "utils_twice"
    /\ UNCHANGED << stop_reason, tool_result_content, idx, only_n_most_recent_images,
                    image_truncation_threshold, arg_images, calls, exc, dispatched >>
    /\ UNCHANGED << arg, ret >>

NextImages ==
    ApplyLoopFilter \/ ApplyFilter \/ ApplyLoopFilterAgain \/ ApplyFilterAgain

SpecImages == InitImages /\ [][NextImages]_vars

(***************************************************************************)
(* The two policies of loop.py applied one after the other to a drawn      *)
(* history, in either order.  prev keeps the history as it was drawn.      *)
(***************************************************************************)
OrderTemplates == {"assistant", "mixed", "one", "two"}

\* the history with a marker on the last block of every user turn
MarkAll(msgs) ==
    [i \in 1..Len(msgs) |->
        IF msgs[i].role = "user" /\ ~msgs[i].is_str /\ msgs[i].content # << >>
        THEN Marked(msgs[i]) ELSE msgs[i]]

InitOrder ==
    /\ PolicyIdle
    /\ pc = "input"
    /\ \E tpls \in SeqsUpTo(OrderTemplates, MaxMsgs), marked \in BOOLEAN :
          messages = IF marked THEN MarkAll(ImageHistory(tpls, 0))
                     ELSE ImageHistory(tpls, 0)
    /\ prev = messages
    /\ only_n_most_recent_images \in 1..MaxKeep
    /\ image_truncation_threshold \in 1..MaxChunk

\* _inject_prompt_caching(messages), then _maybe_filter_to_n_most_recent_images
ApplyInjectThenFilter ==
    /\ pc = "input"
    /\ messages' = loop_maybe_filter_to_n_most_recent_images(
                       loop_inject_prompt_caching(messages),
                       only_n_most_recent_images, image_truncation_threshold)
    /\ pc' = "inject_filter"
    /\ UNCHANGED << stop_reason, tool_result_content, idx, only_n_most_recent_images,
                    image_truncation_threshold, arg_images, calls, exc, dispatched,
                    prev >>
    /\ UNCHANGED << arg, ret >>

\* _maybe_filter_to_n_most_recent_images(messages, ...), then
\* _inject_prompt_caching
ApplyFilterThenInject ==
    /\ pc = "input"
    /\ messages' = loop_inject_prompt_caching(
                       loop_maybe_filter_to_n_most_recent_images(
                           messages, only_n_most_recent_images,
                           image_truncation_threshold))
    /\ pc' = "filter_inject"
    /\ UNCHANGED << stop_reason, tool_result_content, idx, only_n_most_recent_images,
                    image_truncation_threshold, arg_images, calls, exc, dispatched,
                    prev >>
    /\ UNCHANGED << arg, ret >>

NextOrder == ApplyInjectThenFilter \/ ApplyFilterThenInject

SpecOrder == InitOrder /\ [][NextOrder]_vars

(***************************************************************************)
(* Tool adapters.  A call ends in one of                                   *)
(*   "result"     a ToolResult (output, error, base64_image; "" and 0 are  *)
(*                the unset values),                                       *)
(*   "ToolError"  the adapter rejected the call,                           *)
(*   "ValueError" the registry rejected the call,                          *)
(*   "Exception"  any other exception (a page primitive failed, an unbound *)
(*                local, a missing argument).                              *)
(* ok says whether the page primitives of this call succeed; shot is the   *)
(* data of the screenshot the call would take.                             *)
(***************************************************************************)
ToolResult(output, error, base64_image) ==
    [output |-> output, error |-> error, base64_image |-> base64_image,
     system |-> ""]

Returns(result) == [kind |-> "result", result |-> result]
Raises_as_result(kind) == [kind |-> "result", result |-> ToolResult("", kind, 0)]

Raises(kind) == [kind |-> kind, result |-> ToolResult("", "", 0)]

\* (a screenshot that comes back without image data)
screenshot_blank(ok, shot) ==
    IF ok THEN Returns(ToolResult("", "", 0)) ELSE Raises("Exception")

\* BaseComputerTool.screenshot
screenshot(ok, shot) ==
    IF ok THEN Returns(ToolResult("", "", shot)) ELSE Raises("Exception")

\* BaseComputerTool.validate_coordinates: TRUE when it returns the pair
validate_coordinates(c) ==
    /\ c.form \in {"tuple", "list"}
    /\ Len(c.xs) = 2
    /\ \A k \in 1..2 : c.xs[k].t = "int" /\ c.xs[k].n >= 0

\* BaseComputerTool.validate_coordinates: what it returns (None for None, the
\* pair as a tuple) or raises
validate_coordinates_outcome(c) ==
    IF c.form = "none" THEN [kind |-> "result", value |-> NoCoord]
    ELSE IF validate_coordinates(c) THEN [kind |-> "result", value |-> Tuple(c.xs)]
    ELSE [kind |-> "ToolError", value |-> NoCoord]

\* ActionValidator.validate_and_get_coordinates: a list is turned into a
\* tuple; the components are ints or floats
validate_and_get_coordinates_ints(coordinate) ==
    validate_coordinates_outcome(coordinate)

validate_and_get_coordinates(coordinate) ==
    IF coordinate.form \notin {"tuple", "list"} \/ Len(coordinate.xs) # 2
    THEN [kind |-> "ToolError", value |-> NoCoord]
    ELSE IF ~(\A k \in 1..2 : IsNumber(coordinate.xs[k]) /\ coordinate.xs[k].n >= 0)
    THEN [kind |-> "ToolError", value |-> NoCoord]
    ELSE [kind |-> "result", value |-> Tuple(coordinate.xs)]

\* the longest duration hold_key and wait take, in seconds
MaxDuration == 100

ScrollDirection == {"up", "down", "left", "right"}

\* BaseComputerTool.__call__
BaseComputerTool_call(inp, ok, shot) ==
    LET action == inp.action.s IN
    IF action \in {"mouse_move", "left_click_drag"}
    THEN IF inp.coordinate.form = "none" THEN Raises("ToolError")
         ELSE IF ~IsNone(inp.text) THEN Raises("ToolError")
         ELSE IF ~validate_coordinates(inp.coordinate) THEN Raises("ToolError")
         ELSE screenshot(ok, shot)
    ELSE IF action \in {"key", "type"}
    THEN IF IsNone(inp.text) THEN Raises("ToolError")
         ELSE IF inp.coordinate.form # "none" THEN Raises("ToolError")
         ELSE IF inp.text.t # "str" THEN Raises("ToolError")
         ELSE IF action = "key" THEN screenshot(ok, shot)
         ELSE IF inp.text.s = "" THEN Returns(ToolResult("", "", 0))
         ELSE screenshot(ok, shot)
    ELSE IF action \in {"left_click", "right_click", "double_click",
                        "middle_click", "screenshot", "cursor_position"}
    THEN IF ~IsNone(inp.text) THEN Raises("ToolError")
         ELSE IF action = "screenshot" THEN screenshot(ok, shot)
         ELSE IF action = "cursor_position"
         THEN Returns(ToolResult("Cursor position not available in Playwright", "", 0))
         ELSE IF inp.coordinate.form = "none" THEN Raises("Exception")
         ELSE IF ~validate_coordinates(inp.coordinate) THEN Raises("ToolError")
         ELSE screenshot(ok, shot)
    ELSE Raises("ToolError")

\* (a scroll amount that may be left out)
valid_scroll_amount_or_none(scroll_amount) ==
    IsNone(scroll_amount) \/ (scroll_amount.t = "int" /\ scroll_amount.n >= 0)

\* ComputerTool20250124.__call__, scroll: the amount is an int, not negative
valid_scroll_amount(scroll_amount) ==
    scroll_amount.t = "int" /\ scroll_amount.n >= 0

\* ComputerTool20250124.__call__
ComputerTool20250124_call(inp, ok, shot) ==
    LET action == inp.action.s IN
    IF action \in {"left_mouse_down", "left_mouse_up"}
    THEN IF inp.coordinate.form # "none" THEN Raises("ToolError")
         ELSE screenshot(ok, shot)
    ELSE IF action = "scroll"
    THEN IF IsNone(inp.scroll_direction)
            \/ inp.scroll_direction.s \notin ScrollDirection
         THEN Raises("ToolError")
         ELSE IF ~valid_scroll_amount(inp.scroll_amount)
         THEN Raises("ToolError")
         ELSE IF inp.coordinate.form # "none" /\ ~validate_coordinates(inp.coordinate)
         THEN Raises("ToolError")
         ELSE screenshot(ok, shot)
    ELSE IF action \in {"hold_key", "wait"}
    THEN IF ~IsNumber(inp.duration) THEN Raises("ToolError")
         ELSE IF Twice(inp.duration) < 0 THEN Raises("ToolError")
         ELSE IF Twice(inp.duration) > 2 * MaxDuration THEN Raises("ToolError")
         ELSE IF action = "hold_key" /\ IsNone(inp.text) THEN Raises("ToolError")
         ELSE IF action = "hold_key" /\ inp.text.t # "str"
         THEN Raises("Exception")      \* map_key calls text.lower()
         ELSE screenshot(ok, shot)
    ELSE IF action \in {"left_click", "right_click", "double_click",
                        "triple_click", "middle_click"}
    THEN IF ~IsNone(inp.text) THEN Raises("ToolError")
         ELSE IF inp.coordinate.form # "none" /\ ~validate_coordinates(inp.coordinate)
         THEN Raises("ToolError")
         ELSE IF inp.coordinate.form = "none"
         THEN Raises("Exception")      \* x, y are unbound at the click
         ELSE screenshot(ok, shot)
    ELSE BaseComputerTool_call(inp, ok, shot)

\* (a 20241022 tool that takes the later tool's __call__)
ComputerTool20241022_call_later(inp, ok, shot) ==
    ComputerTool20250124_call(inp, ok, shot)

\* ComputerTool20241022 takes __call__ from BaseComputerTool
ComputerTool20241022_call(inp, ok, shot) == BaseComputerTool_call(inp, ok, shot)

(***************************************************************************)
(* The calls a tool makes on the page, in the order of the code, up to its  *)
(* return or raise, when every one of them succeeds.                       *)
(* x and y are the arguments of a pointer call; delta_x and delta_y those  *)
(* of a wheel event, in units of 1 / page_partitions of a pixel.           *)
(***************************************************************************)
PageCall(op) == [op |-> op, x |-> 0, y |-> 0, delta_x |-> 0, delta_y |-> 0]

PointerCall(op, coordinate) ==
    [PageCall(op) EXCEPT !.x = coordinate.xs[1].n, !.y = coordinate.xs[2].n]

\* the key actions press a key when the key argument is a non-empty string
KeyDown(inp) ==
    IF inp.key.t = "str" /\ inp.key.s # "" THEN << PageCall("keyboard.down") >>
    ELSE << >>

KeyUp(inp) ==
    IF inp.key.t = "str" /\ inp.key.s # "" THEN << PageCall("keyboard.up") >>
    ELSE << >>

\* (a tool that moves the pointer to a pair it is given before any check)
BaseComputerTool_page_eager(inp) ==
    IF inp.coordinate.form \in {"tuple", "list"} /\ Len(inp.coordinate.xs) = 2
    THEN << PointerCall("mouse.move", inp.coordinate) >>
    ELSE << >>

\* BaseComputerTool.__call__: the page calls in the order of the code, up to
\* the return or the raise (a typed text is one chunk)
BaseComputerTool_page(inp) ==
    LET action == inp.action.s IN
    IF action \in {"mouse_move", "left_click_drag"}
    THEN IF inp.coordinate.form = "none" THEN << >>
         ELSE IF ~IsNone(inp.text) THEN << >>
         ELSE IF ~validate_coordinates(inp.coordinate) THEN << >>
         ELSE IF action = "mouse_move"
         THEN << PointerCall("mouse.move", inp.coordinate), PageCall("screenshot") >>
         ELSE << PageCall("mouse.down"), PointerCall("mouse.move", inp.coordinate),
                 PageCall("mouse.up"), PageCall("screenshot") >>
    ELSE IF action \in {"key", "type"}
    THEN IF IsNone(inp.text) THEN << >>
         ELSE IF inp.coordinate.form # "none" THEN << >>
         ELSE IF inp.text.t # "str" THEN << >>
         ELSE IF action = "key"
         THEN << PageCall("keyboard.press"), PageCall("screenshot") >>
         ELSE IF inp.text.s = "" THEN << >>
         ELSE << PageCall("keyboard.type"), PageCall("screenshot") >>
    ELSE IF action \in {"left_click", "right_click", "double_click",
                        "middle_click", "screenshot", "cursor_position"}
    THEN IF ~IsNone(inp.text) THEN << >>
         ELSE IF action = "screenshot" THEN << PageCall("screenshot") >>
         ELSE IF action = "cursor_position" THEN << >>
         ELSE IF inp.coordinate.form = "none" THEN << >>   \* x is unbound
         ELSE IF ~validate_coordinates(inp.coordinate) THEN << >>
         ELSE << PointerCall("mouse.move", inp.coordinate),
                 PointerCall(IF action = "double_click" THEN "mouse.dblclick"
                             ELSE "mouse.click", inp.coordinate),
                 PageCall("screenshot") >>
    ELSE << >>

ComputerTool20241022_page(inp, viewport) == BaseComputerTool_page(inp)

\* the number of parts a page is divided in for scrolling
page_partitions == 25

\* (a wheel event that always goes down and right)
scroll_delta_unsigned(scroll_direction, scroll_amount, viewport) ==
    IF scroll_direction \in {"up", "down"}
    THEN [delta_x |-> 0, delta_y |-> scroll_amount * viewport.h]
    ELSE [delta_x |-> scroll_amount * viewport.w, delta_y |-> 0]

\* ComputerTool20250124.__call__, scroll: delta_x and delta_y of the wheel
\* event, times page_partitions (scroll_factor is scroll_amount /
\* page_partitions)
scroll_delta(scroll_direction, scroll_amount, viewport) ==
    IF scroll_direction = "up"
    THEN [delta_x |-> 0, delta_y |-> 0 - scroll_amount * viewport.h]
    ELSE IF scroll_direction = "down"
    THEN [delta_x |-> 0, delta_y |-> scroll_amount * viewport.h]
    ELSE IF scroll_direction = "left"
    THEN [delta_x |-> 0 - scroll_amount * viewport.w, delta_y |-> 0]
    ELSE IF scroll_direction = "right"
    THEN [delta_x |-> scroll_amount * viewport.w, delta_y |-> 0]
    ELSE [delta_x |-> 0, delta_y |-> 0]

\* ComputerTool20250124.__call__: the page calls in the order of the code, up
\* to the return or the raise; viewport is what the page reports as its inner
\* width and height
ComputerTool20250124_page(inp, viewport) ==
    LET action == inp.action.s
        delta  == scroll_delta(inp.scroll_direction.s, inp.scroll_amount.n, viewport)
    IN
    IF action \in {"left_mouse_down", "left_mouse_up"}
    THEN IF inp.coordinate.form # "none" THEN << >>
         ELSE << PageCall(IF action = "left_mouse_down" THEN "mouse.down"
                          ELSE "mouse.up"),
                 PageCall("screenshot") >>
    ELSE IF action = "scroll"
    THEN IF IsNone(inp.scroll_direction)
            \/ inp.scroll_direction.s \notin ScrollDirection
         THEN << >>
         ELSE IF ~valid_scroll_amount(inp.scroll_amount) THEN << >>
         ELSE IF inp.coordinate.form # "none" /\ ~validate_coordinates(inp.coordinate)
         THEN << >>
         ELSE (IF inp.coordinate.form # "none"
               THEN << PointerCall("mouse.move", inp.coordinate) >> ELSE << >>)
              \o << PageCall("evaluate"),
                    [PageCall("mouse.wheel") EXCEPT !.delta_x = delta.delta_x,
                                                    !.delta_y = delta.delta_y],
                    PageCall("screenshot") >>
    ELSE IF action \in {"hold_key", "wait"}
    THEN IF ~IsNumber(inp.duration) THEN << >>
         ELSE IF Twice(inp.duration) < 0 THEN << >>
         ELSE IF Twice(inp.duration) > 2 * MaxDuration THEN << >>
         ELSE IF action = "wait" THEN << PageCall("screenshot") >>
         ELSE IF IsNone(inp.text) THEN << >>
         ELSE IF inp.text.t # "str" THEN << >>      \* map_key raises
         ELSE << PageCall("keyboard.down"), PageCall("keyboard.up"),
                 PageCall("screenshot") >>
    ELSE IF action \in {"left_click", "right_click", "double_click",
                        "triple_click", "middle_click"}
    THEN IF ~IsNone(inp.text) THEN << >>
         ELSE IF inp.coordinate.form # "none" /\ ~validate_coordinates(inp.coordinate)
         THEN << >>
         ELSE IF inp.coordinate.form = "none"
         THEN KeyDown(inp)                          \* x is unbound at the click
         ELSE << PointerCall("mouse.move", inp.coordinate) >>
              \o KeyDown(inp)
              \o << PointerCall(IF action = "double_click" THEN "mouse.dblclick"
                                ELSE "mouse.click", inp.coordinate) >>
              \o KeyUp(inp)
              \o << PageCall("screenshot") >>
    ELSE BaseComputerTool_page(inp)

\* the page calls that were carried out: all of them, or, when the page fails,
\* those before the failing one (the exception of the page leaves the tool
\* there); failing is the position of the call that fails, the last call when
\* there are fewer
PageCallsMade(page, ok, failing) ==
    IF ok \/ page = << >> THEN page
    ELSE SubSeq(page, 1, (IF failing > Len(page) THEN Len(page) ELSE failing) - 1)

\* TOOL_GROUPS: the computer tool of each tool version
ToolVersions ==
    {"computer_use_20241022", "computer_use_20250124", "computer_use_20250429"}

TOOL_GROUPS_BY_VERSION(version) ==
    IF version = "computer_use_20241022" THEN "ComputerTool20241022"
    ELSE "ComputerTool20250124"

ComputerTool_call(version, inp, ok, shot) ==
    IF TOOL_GROUPS_BY_VERSION(version) = "ComputerTool20241022"
    THEN ComputerTool20241022_call(inp, ok, shot)
    ELSE ComputerTool20250124_call(inp, ok, shot)

ComputerTool_page(version, inp, viewport) ==
    IF TOOL_GROUPS_BY_VERSION(version) = "ComputerTool20241022"
    THEN ComputerTool20241022_page(inp, viewport)
    ELSE ComputerTool20250124_page(inp, viewport)

\* ActionValidator.validate_text, validate_coordinate, validate_duration:
\* TRUE when the validation passes, FALSE when it raises ToolError
validate_text_optional(text, required) ==
    ~(~IsNone(text) /\ text.t # "str")

validate_text(text, required) ==
    /\ ~(required /\ IsNone(text))
    /\ ~(~IsNone(text) /\ text.t # "str")

validate_coordinate(coordinate, required) ==
    /\ ~(required /\ coordinate.form = "none")
    /\ coordinate.form # "none" =>
           validate_and_get_coordinates(coordinate).kind = "result"

validate_duration_below(duration) ==
    /\ IsNumber(duration)
    /\ Twice(duration) >= 0
    /\ Twice(duration) < 2 * MaxDuration

validate_duration(duration) ==
    /\ IsNumber(duration)
    /\ Twice(duration) >= 0
    /\ Twice(duration) <= 2 * MaxDuration

\* ActionValidator.validate_action_params: returns None or raises ToolError
validate_action_params(params, mouse_actions, keyboard_actions) ==
    LET action == params.action.s IN
    IF ~validate_text(params.text, action \in keyboard_actions)
    THEN Raises("ToolError")
    ELSE IF ~validate_coordinate(params.coordinate, action \in mouse_actions)
    THEN Raises("ToolError")
    ELSE IF action \in {"hold_key", "wait"} /\ ~validate_duration(params.duration)
    THEN Raises("ToolError")
    ELSE Returns(ToolResult("", "", 0))

SUPPORTED_METHODS == {"goto"}

\* PlaywrightTool.__call__ and _execute_goto
PlaywrightTool_call(inp, ok) ==
    IF IsNone(inp.method) THEN Raises("Exception")
    ELSE IF inp.method.s \notin SUPPORTED_METHODS THEN Raises("ToolError")
    ELSE IF inp.nargs # 1 THEN Raises("ToolError")
    ELSE IF ok THEN Returns(ToolResult("Successfully navigated", "", 0))
    ELSE Raises("ToolError")

(***************************************************************************)
(* The tool registry.                                                      *)
(***************************************************************************)
Action ==
    {"mouse_move", "left_click", "right_click", "middle_click", "double_click",
     "triple_click", "left_click_drag", "left_mouse_down", "left_mouse_up",
     "key", "type", "hold_key", "screenshot", "cursor_position", "scroll", "wait"}

\* the names the loop registers: the tool group's computer tool and the
\* playwright tool
RegisteredTools == {"computer", "playwright"}

\* ToolCollection.run.  The adapter is invoked through tool.call(tool_input);
\* the adapters define __call__ with keyword arguments, and that is the call
\* modelled here (the keys of tool_input as its arguments).
ToolCollection_run(name, tool_input, ok, shot) ==
    IF name \notin RegisteredTools THEN Raises("ValueError")
    ELSE IF tool_input.action.t # "str" \/ tool_input.action.s \notin Action
    THEN Raises("ValueError")
    ELSE IF name = "computer" THEN ComputerTool20250124_call(tool_input, ok, shot)
    ELSE PlaywrightTool_call(tool_input, ok)

(***************************************************************************)
(* The sampling loop.                                                      *)
(***************************************************************************)
ToolResultBlock(tool_use_id, is_str, txt, content, is_error) ==
    [type |-> "tool_result", id |-> tool_use_id, name |-> "", input |-> NoInput,
     text |-> txt, content |-> content, is_str |-> is_str, is_error |-> is_error,
     cache_control |-> FALSE]

\* loop.py _maybe_prepend_system_tool_result
loop_maybe_prepend_system_tool_result(result, result_text) ==
    IF result.system # ""
    THEN "<system>" \o result.system \o "</system>\n" \o result_text
    ELSE result_text

\* loop.py _make_api_tool_result.  Every field of the result is tested for its
\* truth value only, so None and the empty string are one value here ("", and
\* 0 for the image).
loop_make_api_tool_result_unflagged(result, tool_use_id) ==
    ToolResultBlock(tool_use_id, FALSE, "",
        (IF result.output # ""
         THEN << InnerText(loop_maybe_prepend_system_tool_result(result, result.output)) >>
         ELSE << >>)
        \o (IF result.base64_image # 0
            THEN << InnerImage(result.base64_image) >> ELSE << >>),
        FALSE)

loop_make_api_tool_result(result, tool_use_id) ==
    IF result.error # ""
    THEN ToolResultBlock(tool_use_id, TRUE,
             loop_maybe_prepend_system_tool_result(result, result.error),
             << >>, TRUE)
    ELSE ToolResultBlock(tool_use_id, FALSE, "",
             (IF result.output # ""
              THEN << InnerText(loop_maybe_prepend_system_tool_result(
                                    result, result.output)) >>
              ELSE << >>)
             \o (IF result.base64_image # 0
                 THEN << InnerImage(result.base64_image) >> ELSE << >>),
             FALSE)

\* utils/tool_results.py maybe_prepend_system_tool_result, given the system
\* value of the result
maybe_prepend_system_tool_result(system, result_text) ==
    IF system.t = "str" /\ system.s # ""
    THEN "<system>" \o system.s \o "</system>\n" \o result_text
    ELSE result_text

\* utils/tool_results.py make_api_tool_result.  The fields of the result are
\* Python values (None or a string; the image payload is numbered): error and
\* output are tested against None, is_error is the truth value of error.
make_api_tool_result(result, tool_use_id) ==
    LET error_val == result.error
        output_val == result.output
        base64_val == result.base64_image
        system_val == result.system
        is_error == error_val.t = "str" /\ error_val.s # ""
        content ==
            IF ~IsNone(error_val)
            THEN << InnerText(maybe_prepend_system_tool_result(system_val,
                                                               error_val.s)) >>
            ELSE (IF ~IsNone(output_val)
                  THEN << InnerText(maybe_prepend_system_tool_result(
                                        system_val, output_val.s)) >>
                  ELSE << >>)
                 \o (IF ~IsNone(base64_val)
                     THEN << InnerImage(base64_val.n) >> ELSE << >>)
    IN  ToolResultBlock(tool_use_id, FALSE, "", content, is_error)

\* loop.py _response_to_params: a text block with empty text is dropped, every
\* other block is passed on
RECURSIVE loop_response_to_params(_)
loop_response_to_params(content) ==
    IF content = << >> THEN << >>
    ELSE IF Head(content).type = "text" /\ Head(content).text = ""
         THEN loop_response_to_params(Tail(content))
         ELSE << Head(content) >> \o loop_response_to_params(Tail(content))

\* The inputs the model sends in a tool_use block, by name.
EmptyInput ==
    [action |-> None, text |-> None, coordinate |-> NoCoord,
     scroll_direction |-> None, scroll_amount |-> None,
     duration |-> None, key |-> None, method |-> None, nargs |-> 0]

ToolInput(name) ==
    CASE name = "click" ->
           [EmptyInput EXCEPT !.action = PStr("left_click"),
                              !.coordinate = List(<< PInt(100), PInt(50) >>)]
      [] name = "key_no_text" -> [EmptyInput EXCEPT !.action = PStr("key")]
      [] name = "bad_action" -> [EmptyInput EXCEPT !.action = PStr("fly")]
      [] name = "goto" ->
           [EmptyInput EXCEPT !.method = PStr("goto"), !.nargs = 1]
      [] OTHER -> EmptyInput

RawKinds == {"text", "empty", "foo", "no_action", "bad_action", "key_no_text",
             "click"}

IsToolKind(kind) == kind \notin {"text", "empty"}

\* the block of a kind; id is the id the model gave the tool_use
RawBlock(kind, id) ==
    CASE kind = "text" -> TextBlock("t")
      [] kind = "empty" -> TextBlock("")
      [] kind = "foo" -> ToolUseBlock(id, "foo", "click")
      [] kind = "no_action" -> ToolUseBlock(id, "computer", "no_action")
      [] kind = "bad_action" -> ToolUseBlock(id, "computer", "bad_action")
      [] kind = "key_no_text" -> ToolUseBlock(id, "computer", "key_no_text")
      [] kind = "click" -> ToolUseBlock(id, "computer", "click")
      [] kind = "goto" -> ToolUseBlock(id, "playwright", "goto")

\* the content of a response: its k-th tool_use has id base + k
RECURSIVE RawContent(_, _)
RawContent(kinds, base) ==
    IF kinds = << >> THEN << >>
    ELSE IF IsToolKind(Head(kinds))
         THEN << RawBlock(Head(kinds), base + 1) >> \o RawContent(Tail(kinds), base + 1)
         ELSE << RawBlock(Head(kinds), 0) >> \o RawContent(Tail(kinds), base)

StopReasons == {"end_turn", "tool_use", "max_tokens"}

\* index of the first tool_use block after position i, 0 if there is none:
\* the `for content_block in response_params` loop between two awaits
NextToolUse(content, i) ==
    IF \E j \in (i + 1)..Len(content) : content[j].type = "tool_use"
    THEN CHOOSE j \in (i + 1)..Len(content) :
             /\ content[j].type = "tool_use"
             /\ \A k \in (i + 1)..(j - 1) : content[k].type # "tool_use"
    ELSE 0

\* line 184: response.stop_reason == "end_turn"
IsEndTurn_stop_sequence(sr) == sr = "stop_sequence"

IsEndTurn(sr) == sr = "end_turn"

\* line 199: not tool_result_content
NoToolResults_unchecked(trc) == FALSE

NoToolResults(trc) == trc = << >>

\* line 195: tool_result_content.append(...)
AppendResult_front(trc, block) == << block >> \o trc

AppendResult(trc, block) == Append(trc, block)

\* line 136: with prompt caching on (it always is), the image limit is zeroed
CachedImageLimit_kept(n) == n

CachedImageLimit(n) == 0

InitialHistories ==
    { << >>, << StrMessage("user") >>, << Message("user", << TextBlock("q") >>) >> }

\* only_n_most_recent_images as the caller gives it: None, or a limit
CallerImageLimits == {0, 1}

InitWith(histories) ==
    /\ messages \in histories
    /\ pc = "top"
    /\ stop_reason = ""
    /\ tool_result_content = << >>
    /\ idx = 0
    /\ arg_images \in CallerImageLimits
    /\ only_n_most_recent_images = arg_images
    /\ image_truncation_threshold = 0
    /\ calls = 0
    /\ exc = ""
    /\ dispatched = << >>
    /\ prev = messages              \* the history as the caller passed it
    /\ arg = None
    /\ ret = None

Init == InitWith(InitialHistories)

\* lines 122-162: the policies are applied and the model call is issued
IssueModelCallUpTo(max) ==
    /\ pc = "top"
    /\ calls < max
    /\ image_truncation_threshold' = only_n_most_recent_images
    /\ only_n_most_recent_images' = CachedImageLimit(only_n_most_recent_images)
    /\ messages' =
          LET cached == loop_inject_prompt_caching(messages) IN
          IF only_n_most_recent_images' # 0
          THEN loop_maybe_filter_to_n_most_recent_images(
                   cached, only_n_most_recent_images', image_truncation_threshold')
          ELSE cached
    /\ calls' = calls + 1
    /\ pc' = "model_call"
    /\ UNCHANGED << stop_reason, tool_result_content, idx, arg_images, exc,
                    dispatched, prev >>
    /\ UNCHANGED << arg, ret >>

IssueModelCall ==
    /\ pc = "top"
    /\ IssueModelCallUpTo(MaxCalls)

\* line 154: client.beta.messages.create raises (after the client's own retries)
ModelCallFails_retried ==
    /\ pc = "model_call"
    /\ pc' = "top"
    /\ UNCHANGED << messages, stop_reason, tool_result_content, idx,
                    only_n_most_recent_images, image_truncation_threshold,
                    arg_images, calls, dispatched, prev, exc >>
    /\ UNCHANGED << arg, ret >>

ModelCallFails ==
    /\ pc = "model_call"
    /\ pc' = "raised"
    /\ exc' = "APIError"
    /\ UNCHANGED << messages, stop_reason, tool_result_content, idx,
                    only_n_most_recent_images, image_truncation_threshold,
                    arg_images, calls, dispatched, prev >>
    /\ UNCHANGED << arg, ret >>

\* lines 199-202, reached when the for loop over response_params is over
EndOfTurn(msgs, trc) ==
    IF NoToolResults(trc)
    THEN /\ messages' = msgs
         /\ pc' = "done"
         /\ UNCHANGED stop_reason
    ELSE /\ messages' = Append(msgs, Message("user", trc))
         /\ pc' = "top"
         /\ stop_reason' = ""

\* lines 154-200: the response arrives, is appended, and the loop runs up to
\* its first tool call (or returns)
ModelRespondsWith(responses) ==
    /\ pc = "model_call"
    /\ \E sr \in StopReasons, kinds \in responses :
          LET response_params ==
                  loop_response_to_params(RawContent(kinds, 10 * calls))
              appended == Append(messages, Message("assistant", response_params))
              first == NextToolUse(response_params, 0)
          IN  IF IsEndTurn(sr)
              THEN /\ messages' = appended
                   /\ stop_reason' = sr
                   /\ pc' = "done"
                   /\ idx' = 0
              ELSE IF first # 0
              THEN /\ messages' = appended
                   /\ stop_reason' = sr
                   /\ pc' = "dispatch"
                   /\ idx' = first
              ELSE /\ idx' = 0
                   /\ IF NoToolResults(<< >>)
                      THEN /\ messages' = appended
                           /\ pc' = "done"
                           /\ stop_reason' = sr
                      ELSE /\ messages' = Append(appended, Message("user", << >>))
                           /\ pc' = "top"
                           /\ stop_reason' = ""
    /\ tool_result_content' = << >>
    /\ UNCHANGED << only_n_most_recent_images, image_truncation_threshold,
                    arg_images, calls, exc, dispatched, prev >>
    /\ UNCHANGED << arg, ret >>

ModelResponds ==
    /\ pc = "model_call"
    /\ ModelRespondsWith(SeqsUpTo(RawKinds, MaxBlocks))

\* lines 189-202: one tool call is awaited; its result is collected and the
\* loop runs up to the next tool call, or closes the turn
DispatchTool ==
    /\ pc = "dispatch"
    /\ \E ok \in BOOLEAN :
          LET response_params == Last(messages).content
              content_block == response_params[idx]
              outcome == ToolCollection_run(content_block.name,
                                            ToolInput(content_block.input),
                                            ok, content_block.id)
              collected == AppendResult(tool_result_content,
                               loop_make_api_tool_result(outcome.result,
                                                         content_block.id))
              next == NextToolUse(response_params, idx)
          IN  /\ dispatched' = Append(dispatched, content_block.id)
              /\ IF outcome.kind # "result"
                 THEN /\ pc' = "raised"
                      /\ exc' = outcome.kind
                      /\ UNCHANGED << messages, stop_reason, tool_result_content, idx >>
                 ELSE IF next # 0
                 THEN /\ tool_result_content' = collected
                      /\ idx' = next
                      /\ UNCHANGED << messages, stop_reason, pc, exc >>
                 ELSE /\ tool_result_content' = << >>
                      /\ idx' = 0
                      /\ exc' = exc
                      /\ EndOfTurn(messages, collected)
    /\ UNCHANGED << only_n_most_recent_images, image_truncation_threshold,
                    arg_images, calls, prev >>
    /\ UNCHANGED << arg, ret >>

Next == IssueModelCall \/ ModelCallFails \/ ModelResponds \/ DispatchTool

Spec == Init /\ [][Next]_vars

(***************************************************************************)
(* Longer runs of the sampling loop: more model calls, fewer shapes of     *)
(* response, and histories that already hold several turns.                *)
(***************************************************************************)
MaxLongCalls == 5

\* a history of n user turns with list content, an assistant turn after each
RECURSIVE Conversation(_)
Conversation(n) ==
    IF n = 0 THEN << >>
    ELSE Conversation(n - 1)
         \o << Message("user", << TextBlock("q") >>),
                Message("assistant", << TextBlock("t") >>) >>

LongHistories ==
    InitialHistories
    \cup { Conversation(2) \o << Message("user", << TextBlock("q") >>) >>,
           Conversation(4) \o << StrMessage("user") >> }

LongResponses ==
    { << "click" >>, << "text", "click" >>, << "click", "click" >>,
      << "goto" >>, << "text" >>, << "key_no_text" >> }

InitLong == InitWith(LongHistories)

IssueModelCallLong ==
    /\ pc = "top"
    /\ IssueModelCallUpTo(MaxLongCalls)

ModelRespondsLong ==
    /\ pc = "model_call"
    /\ ModelRespondsWith(LongResponses)

NextLong ==
    IssueModelCallLong \/ ModelCallFails \/ ModelRespondsLong \/ DispatchTool

SpecLong == InitLong /\ [][NextLong]_vars

(***************************************************************************)
(* The conversion of a ToolResult into a tool_result block, run on its     *)
(* own.  arg holds the ToolResult as Python values and the tool_use id.    *)
(***************************************************************************)
MaxShot == 2         \* image payloads of the drawn tool results

ResultErrors == {None, PStr(""), PStr("boom")}
ResultOutputs == {None, PStr(""), PStr("out")}
ResultImages == {None} \cup { PInt(k) : k \in 1..MaxShot }
ResultSystems == {None, PStr("sys")}

\* the result as loop.py sees it: the truth value of each field
TruthOf(result) ==
    [output |-> result.output.s, error |-> result.error.s,
     base64_image |-> result.base64_image.n, system |-> result.system.s]

\* the loop's variables while a function is run on its own
FunctionIdle ==
    /\ stop_reason = "" /\ tool_result_content = << >> /\ idx = 0
    /\ arg_images = 0 /\ calls = 0 /\ exc = "" /\ dispatched = << >>
    /\ messages = << >> /\ prev = << >>
    /\ only_n_most_recent_images = 0 /\ image_truncation_threshold = 0

InitResult ==
    /\ FunctionIdle
    /\ pc = "input"
    /\ arg \in [output : ResultOutputs, error : ResultErrors,
                 base64_image : ResultImages, system : ResultSystems,
                 tool_use_id : 1..MaxBlocks]
    /\ ret = None

ApplyLoopMakeResult ==
    /\ pc = "input"
    /\ ret' = loop_make_api_tool_result(TruthOf(arg), arg.tool_use_id)
    /\ pc' = "loop_out"
    /\ UNCHANGED << messages, stop_reason, tool_result_content, idx,
                    only_n_most_recent_images, image_truncation_threshold,
                    arg_images, calls, exc, dispatched, prev, arg >>

ApplyMakeResult ==
    /\ pc = "input"
    /\ ret' = make_api_tool_result(arg, arg.tool_use_id)
    /\ pc' = "utils_out"
    /\ UNCHANGED << messages, stop_reason, tool_result_content, idx,
                    only_n_most_recent_images, image_truncation_threshold,
                    arg_images, calls, exc, dispatched, prev, arg >>

NextResult == ApplyLoopMakeResult \/ ApplyMakeResult

SpecResult == InitResult /\ [][NextResult]_vars

(***************************************************************************)
(* Coordinate validation run on its own.  arg holds the coordinate.        *)
(***************************************************************************)
MaxCoordLen == 3     \* longest drawn coordinate sequence

CoordComponents ==
    {PInt(-1), PInt(0), PInt(7), PFloat(-1), PFloat(0), PFloat(3), PStr("7"), None}

\* None, tuples and lists of components, and an object that is neither
Coordinates ==
    {NoCoord, [form |-> "str", xs |-> << >>]}
    \cup { [form |-> f, xs |-> xs] :
               f \in {"tuple", "list"}, xs \in SeqsUpTo(CoordComponents, MaxCoordLen) }

InitCoord ==
    /\ FunctionIdle
    /\ pc = "input"
    /\ arg \in Coordinates
    /\ ret = None

ApplyValidateCoordinates ==
    /\ pc = "input"
    /\ ret' = validate_coordinates_outcome(arg)
    /\ pc' = "tool_out"
    /\ UNCHANGED << messages, stop_reason, tool_result_content, idx,
                    only_n_most_recent_images, image_truncation_threshold,
                    arg_images, calls, exc, dispatched, prev, arg >>

ApplyValidateAndGetCoordinates ==
    /\ pc = "input"
    /\ ret' = validate_and_get_coordinates(arg)
    /\ pc' = "validator_out"
    /\ UNCHANGED << messages, stop_reason, tool_result_content, idx,
                    only_n_most_recent_images, image_truncation_threshold,
                    arg_images, calls, exc, dispatched, prev, arg >>

NextCoord == ApplyValidateCoordinates \/ ApplyValidateAndGetCoordinates

SpecCoord == InitCoord /\ [][NextCoord]_vars

(***************************************************************************)
(* One call of the computer tool, and one run of the action validator, on  *)
(* their own.  arg holds the arguments of the call.                        *)
(***************************************************************************)
DurSlack == 2        \* how far outside 0..MaxDuration the drawn durations go

CallTexts == {None, PStr("a"), PStr(""), PInt(5)}

CallCoordinates ==
    {NoCoord, List(<< PInt(100), PInt(50) >>), Tuple(<< PInt(100), PInt(50) >>),
     List(<< PFloat(3), PInt(50) >>), List(<< PInt(-1), PInt(50) >>),
     List(<< PInt(7) >>)}

\* the durations given to hold_key and wait: nothing, a string, and every int
\* and every float (in halves) from DurSlack below 0 to DurSlack above the limit
Durations ==
    {None, PStr("1")}
    \cup { PInt(d) : d \in (0 - DurSlack)..(MaxDuration + DurSlack) }
    \cup { PFloat(h) : h \in (0 - 2 * DurSlack)..(2 * MaxDuration + 2 * DurSlack) }

\* the durations given to the actions that take none
OtherDurations == {None, PInt(1)}

\* the action sets a caller hands to the validator
PointerActions ==
    {"mouse_move", "left_click_drag", "left_click", "right_click", "middle_click",
     "double_click", "triple_click"}
KeyboardActions == {"key", "type", "hold_key"}

\* the direction and the amount given to scroll
CallScrollDirections ==
    {None, PStr("up"), PStr("down"), PStr("left"), PStr("right"), PStr("diagonal")}

CallScrollAmounts == {None, PInt(-1), PInt(0), PInt(1), PInt(3), PFloat(6)}

\* the modifier key given to a click: none, or a key name
CallKeys == {None, PStr("ctrl")}

\* what the page reports as its inner width and height
Viewports == {[w |-> 1280, h |-> 720], [w |-> 600, h |-> 800]}

\* the most page calls one call of the tool makes
MaxPageCalls == 5

InitTool ==
    /\ FunctionIdle
    /\ pc = "input"
    /\ \E a \in Action, t \in CallTexts, c \in CallCoordinates, d \in Durations,
          sd \in CallScrollDirections, sa \in CallScrollAmounts, k \in CallKeys :
          /\ (a \notin {"hold_key", "wait"}) => d \in OtherDurations
          /\ (a # "scroll") => (sd = None /\ sa = None)
          /\ (a \notin {"left_click", "triple_click"}) => k = None
          /\ arg = [EmptyInput EXCEPT !.action = PStr(a), !.text = t,
                                      !.coordinate = c, !.duration = d,
                                      !.scroll_direction = sd,
                                      !.scroll_amount = sa, !.key = k]
    /\ ret = None

\* the computer tool of a tool version called with **arg
CallComputerToolOf(versions, at) ==
    /\ pc = "input"
    /\ \E version \in versions, ok \in BOOLEAN, viewport \in Viewports,
          failing \in 1..MaxPageCalls :
          ret' = [outcome |-> ComputerTool_call(version, arg, ok, 1), ok |-> ok,
                  mouse_actions |-> {}, keyboard_actions |-> {},
                  version |-> version, viewport |-> viewport,
                  page |-> PageCallsMade(ComputerTool_page(version, arg, viewport),
                                         ok, failing)]
    /\ pc' = at
    /\ UNCHANGED << messages, stop_reason, tool_result_content, idx,
                    only_n_most_recent_images, image_truncation_threshold,
                    arg_images, calls, exc, dispatched, prev, arg >>

\* ComputerTool20250124.__call__(**arg), the tool of the two later versions
CallComputerTool ==
    /\ pc = "input"
    /\ CallComputerToolOf(ToolVersions \ {"computer_use_20241022"}, "tool_out")

\* ComputerTool20241022.__call__(**arg)
CallComputerTool20241022 ==
    /\ pc = "input"
    /\ CallComputerToolOf({"computer_use_20241022"}, "tool2024_out")

\* ActionValidator.validate_action_params(arg, mouse_actions, keyboard_actions)
CallValidator ==
    /\ pc = "input"
    /\ \E ma \in {{}, PointerActions}, ka \in {{}, KeyboardActions} :
          ret' = [outcome |-> validate_action_params(arg, ma, ka), ok |-> TRUE,
                  mouse_actions |-> ma, keyboard_actions |-> ka,
                  version |-> "", viewport |-> [w |-> 0, h |-> 0],
                  page |-> << >>]
    /\ pc' = "validator_out"
    /\ UNCHANGED << messages, stop_reason, tool_result_content, idx,
                    only_n_most_recent_images, image_truncation_threshold,
                    arg_images, calls, exc, dispatched, prev, arg >>

NextTool == CallComputerTool \/ CallComputerTool20241022 \/ CallValidator

SpecTool == InitTool /\ [][NextTool]_vars

(***************************************************************************)
(* Key names.  A key string is held as the sequence of its parts between   *)
(* '+' signs: "ctrl+a" is << "ctrl", "a" >>, a name without '+' is a       *)
(* sequence of one part and the empty string is << "" >>.  A table is a    *)
(* set of pairs << name, canonical name >>.                                *)
(***************************************************************************)
\* tools/computer.py MODIFIER_KEY_MAP
MODIFIER_KEY_MAP ==
    {<< "ctrl", "Control" >>, << "alt", "Alt" >>, << "command", "Meta" >>,
     << "win", "Meta" >>}

\* tools/computer.py KEY_MAP
KEY_MAP ==
    {<< "return", "Enter" >>, << "space", " " >>, << "left", "ArrowLeft" >>,
     << "right", "ArrowRight" >>, << "up", "ArrowUp" >>,
     << "down", "ArrowDown" >>, << "home", "Home" >>, << "end", "End" >>,
     << "pageup", "PageUp" >>, << "pagedown", "PageDown" >>,
     << "delete", "Delete" >>, << "backspace", "Backspace" >>,
     << "tab", "Tab" >>, << "esc", "Escape" >>, << "escape", "Escape" >>,
     << "insert", "Insert" >>, << "super_l", "Meta" >>, << "f1", "F1" >>,
     << "f2", "F2" >>, << "f3", "F3" >>, << "f4", "F4" >>, << "f5", "F5" >>,
     << "f6", "F6" >>, << "f7", "F7" >>, << "f8", "F8" >>, << "f9", "F9" >>,
     << "f10", "F10" >>, << "f11", "F11" >>, << "f12", "F12" >>}

\* KeyboardUtils._modifier_key_map
KeyboardUtils_modifier_key_map ==
    {<< "ctrl", "Control" >>, << "alt", "Alt" >>, << "command", "Meta" >>,
     << "win", "Meta" >>}

\* KeyboardUtils._key_map
KeyboardUtils_key_map ==
    {<< "return", "Enter" >>, << "space", " " >>, << "left", "ArrowLeft" >>,
     << "right", "ArrowRight" >>, << "up", "ArrowUp" >>,
     << "down", "ArrowDown" >>, << "home", "Home" >>, << "end", "End" >>,
     << "pageup", "PageUp" >>, << "pagedown", "PageDown" >>,
     << "delete", "Delete" >>, << "backspace", "Backspace" >>,
     << "tab", "Tab" >>, << "esc", "Escape" >>, << "escape", "Escape" >>,
     << "insert", "Insert" >>, << "f1", "F1" >>, << "f2", "F2" >>,
     << "f3", "F3" >>, << "f4", "F4" >>, << "f5", "F5" >>, << "f6", "F6" >>,
     << "f7", "F7" >>, << "f8", "F8" >>, << "f9", "F9" >>,
     << "f10", "F10" >>, << "f11", "F11" >>, << "f12", "F12" >>}

\* openagi KernelActionHandler.XDOTOOL_KEY_MAP
XDOTOOL_KEY_MAP ==
    {<< "enter", "Return" >>, << "return", "Return" >>,
     << "escape", "Escape" >>, << "esc", "Escape" >>,
     << "backspace", "BackSpace" >>, << "tab", "Tab" >>,
     << "space", "space" >>, << "up", "Up" >>, << "down", "Down" >>,
     << "left", "Left" >>, << "right", "Right" >>, << "pageup", "Page_Up" >>,
     << "page_up", "Page_Up" >>, << "pgup", "Page_Up" >>,
     << "pagedown", "Page_Down" >>, << "page_down", "Page_Down" >>,
     << "pgdn", "Page_Down" >>, << "home", "Home" >>, << "end", "End" >>,
     << "insert", "Insert" >>, << "delete", "Delete" >>,
     << "del", "Delete" >>, << "f1", "F1" >>, << "f2", "F2" >>,
     << "f3", "F3" >>, << "f4", "F4" >>, << "f5", "F5" >>, << "f6", "F6" >>,
     << "f7", "F7" >>, << "f8", "F8" >>, << "f9", "F9" >>,
     << "f10", "F10" >>, << "f11", "F11" >>, << "f12", "F12" >>,
     << "ctrl", "ctrl" >>, << "control", "ctrl" >>, << "alt", "alt" >>,
     << "shift", "shift" >>, << "super", "super" >>, << "win", "super" >>,
     << "command", "super" >>, << "cmd", "super" >>, << "meta", "super" >>,
     << "capslock", "Caps_Lock" >>, << "caps_lock", "Caps_Lock" >>,
     << "caps", "Caps_Lock" >>, << "printscreen", "Print" >>,
     << "print_screen", "Print" >>, << "prtsc", "Print" >>,
     << "scrolllock", "Scroll_Lock" >>, << "scroll_lock", "Scroll_Lock" >>,
     << "pause", "Pause" >>, << "break", "Break" >>,
     << "numlock", "Num_Lock" >>, << "num_lock", "Num_Lock" >>}

\* name in table / table[name] / table.get(name, default)
Has(table, name) == \E p \in table : p[1] = name

Get(table, name, default) ==
    IF Has(table, name) THEN (CHOOSE p \in table : p[1] = name)[2] ELSE default

\* the most parts of a drawn key combination
MaxParts == 3

\* the spellings the parts are drawn from
KeyNames ==
    {"ctrl", "Ctrl", "alt", "win", "shift", "return", "Return", "delete",
     "pgdn", "a", "A", "foo", "FOO", "volume_up", " tab", ""}

\* str.lower, str.strip, str.capitalize and str.title on these spellings
Lower(s) ==
    CASE s = "Ctrl" -> "ctrl"
      [] s = "Return" -> "return"
      [] s = "A" -> "a"
      [] s = "FOO" -> "foo"
      [] OTHER -> s

Strip(s) == IF s = " tab" THEN "tab" ELSE s

Capitalize(s) ==
    CASE s \in {"ctrl", "Ctrl"} -> "Ctrl"
      [] s = "alt" -> "Alt"
      [] s = "win" -> "Win"
      [] s = "shift" -> "Shift"
      [] s \in {"return", "Return"} -> "Return"
      [] s = "delete" -> "Delete"
      [] s = "pgdn" -> "Pgdn"
      [] s \in {"a", "A"} -> "A"
      [] s \in {"foo", "FOO"} -> "Foo"
      [] s = "volume_up" -> "Volume_up"
      [] OTHER -> s

Title(s) ==
    CASE s = "volume_up" -> "Volume_Up"
      [] s = " tab" -> " Tab"
      [] OTHER -> Capitalize(s)

KeyResult(value) == [kind |-> "result", value |-> value]
KeyRaises(kind) == [kind |-> kind, value |-> << >>]

\* BaseComputerTool.map_key; the result is held in parts like the key
map_key(key) ==
    IF Len(key) = 1 /\ Has(MODIFIER_KEY_MAP, Lower(key[1]))
    THEN << Get(MODIFIER_KEY_MAP, Lower(key[1]), "") >>
    ELSE IF Len(key) = 1 /\ Has(KEY_MAP, Lower(key[1]))
    THEN << Get(KEY_MAP, Lower(key[1]), "") >>
    ELSE IF Len(key) = 2
    THEN << Get(MODIFIER_KEY_MAP, Lower(key[1]), key[1]),
            Get(KEY_MAP, Lower(key[2]), key[2]) >>
    ELSE key

\* KeyboardUtils.get_playwright_key, of a name without '+'
get_playwright_key(key) ==
    IF key = "" THEN KeyRaises("ValueError")
    ELSE IF Has(KeyboardUtils_key_map, Lower(key))
    THEN KeyResult(<< Get(KeyboardUtils_key_map, Lower(key), "") >>)
    ELSE IF Has(KeyboardUtils_modifier_key_map, Lower(key))
    THEN KeyResult(<< Get(KeyboardUtils_modifier_key_map, Lower(key), "") >>)
    ELSE KeyResult(<< key >>)

\* KeyboardUtils.parse_key_combination: the list of the keys
parse_key_combination(combo) ==
    IF combo = << "" >> THEN KeyRaises("ValueError")
    ELSE IF \E k \in 1..Len(combo) : Strip(Lower(combo[k])) = ""
    THEN KeyRaises("ValueError")
    ELSE KeyResult([k \in 1..Len(combo) |->
                       get_playwright_key(Strip(Lower(combo[k]))).value[1]])

\* (a _translate_key that leaves every unknown name as it is)
translate_key_unchanged(key) ==
    IF Has(XDOTOOL_KEY_MAP, Lower(Strip(key)))
    THEN Get(XDOTOOL_KEY_MAP, Lower(Strip(key)), "")
    ELSE key

\* openagi KernelActionHandler._translate_key
translate_key(key) ==
    IF Has(XDOTOOL_KEY_MAP, Lower(Strip(key)))
    THEN Get(XDOTOOL_KEY_MAP, Lower(Strip(key)), "")
    ELSE IF Len(key) = 1 THEN key
    ELSE Capitalize(key)

Keys == { key \in SeqsUpTo(KeyNames, MaxParts) : Len(key) >= 1 }

InitKey ==
    /\ FunctionIdle
    /\ pc = "input"
    /\ arg \in Keys
    /\ ret = None

KeyDone(at, result) ==
    /\ pc = "input"
    /\ ret' = result
    /\ pc' = at
    /\ UNCHANGED << messages, stop_reason, tool_result_content, idx,
                    only_n_most_recent_images, image_truncation_threshold,
                    arg_images, calls, exc, dispatched, prev, arg >>

ApplyMapKey ==
    /\ pc = "input"
    /\ KeyDone("map_key_out", KeyResult(map_key(arg)))

ApplyParseKeyCombination ==
    /\ pc = "input"
    /\ KeyDone("parse_out", parse_key_combination(arg))

ApplyGetPlaywrightKey ==
    /\ Len(arg) = 1
    /\ KeyDone("get_key_out", get_playwright_key(arg[1]))

ApplyTranslateKey ==
    /\ Len(arg) = 1
    /\ KeyDone("translate_out", KeyResult(<< translate_key(arg[1]) >>))

NextKey ==
    \/ ApplyMapKey
    \/ ApplyParseKeyCombination
    \/ ApplyGetPlaywrightKey
    \/ ApplyTranslateKey

SpecKey == InitKey /\ [][NextKey]_vars

(***************************************************************************)
(* openagi/kernel_handler.py: the TYPE case of _execute_single_action.  A  *)
(* string is the sequence of its characters; "\n" is the newline character *)
(* and "\\" the backslash.                                                 *)
(***************************************************************************)
MaxText == 4         \* longest drawn argument of a TYPE action

TypeChars == {"a", "n", "\\", "\n", "\""}

RECURSIVE str_lstrip(_, _)
\* str.lstrip(chars): drops leading characters that are in the set chars
str_lstrip(text, chars) ==
    IF text # << >> /\ text[1] \in chars
    THEN str_lstrip(Tail(text), chars) ELSE text

RECURSIVE str_rstrip(_, _)
\* str.rstrip(chars): drops trailing characters that are in the set chars
str_rstrip(text, chars) ==
    IF text # << >> /\ text[Len(text)] \in chars
    THEN str_rstrip(SubSeq(text, 1, Len(text) - 1), chars) ELSE text

\* str.strip(chars)
str_strip(text, chars) == str_rstrip(str_lstrip(text, chars), chars)

\* str.endswith(suffix)
str_endswith(text, suffix) ==
    /\ Len(text) >= Len(suffix)
    /\ SubSeq(text, Len(text) - Len(suffix) + 1, Len(text)) = suffix

\* the calls of _execute_type(text, press_enter) on the computer API
execute_type(text, press_enter) ==
    << [op |-> "type_text", text |-> text] >>
    \o (IF press_enter THEN << [op |-> "press_key", text |-> << "Return" >>] >>
        ELSE << >>)

\* the text that the TYPE case reads from action.argument
type_text_of(argument) == str_strip(str_strip(argument, {"(", ")"}), {"\"", "'"})

\* _execute_single_action for ActionType.TYPE
execute_single_action_type(argument) ==
    LET text == type_text_of(argument)
        press_enter == str_endswith(text, << "\n" >>)
                       \/ str_endswith(text, << "\\", "n" >>)
    IN  IF press_enter
        THEN execute_type(str_rstrip(str_rstrip(text, {"\n"}), {"\\", "n"}), TRUE)
        ELSE execute_type(text, FALSE)

InitType ==
    /\ FunctionIdle
    /\ pc = "input"
    /\ arg \in SeqsUpTo(TypeChars, MaxText)
    /\ ret = None

ApplyExecuteType ==
    /\ pc = "input"
    /\ ret' = execute_single_action_type(arg)
    /\ pc' = "type_out"
    /\ UNCHANGED << messages, stop_reason, tool_result_content, idx,
                    only_n_most_recent_images, image_truncation_threshold,
                    arg_images, calls, exc, dispatched, prev, arg >>

NextType == ApplyExecuteType

SpecType == InitType /\ [][NextType]_vars

(***************************************************************************)
(* openagi/kernel_handler.py: _denormalize_coords, from the model's 0-1000 *)
(* coordinates to screen coordinates of the session's viewport.            *)
(***************************************************************************)
CoordSlack == 3      \* how far the drawn coordinates leave the range 0..1000

NormalizedRange == 1000

py_min(a, b) == IF a <= b THEN a ELSE b

py_max(a, b) == IF a >= b THEN a ELSE b

\* int(num / den) for den > 0: the quotient rounded toward zero
int_of_quotient(num, den) ==
    IF num >= 0 THEN num \div den ELSE 0 - ((0 - num) \div den)

denormalize_coords_from_zero(x, y, viewport_width, viewport_height) ==
    << py_max(0, py_min(int_of_quotient(x * viewport_width, NormalizedRange),
                        viewport_width - 1)),
       py_max(0, py_min(int_of_quotient(y * viewport_height, NormalizedRange),
                        viewport_height - 1)) >>

denormalize_coords(x, y, viewport_width, viewport_height) ==
    LET screen_x == int_of_quotient(x * viewport_width, NormalizedRange)
        screen_y == int_of_quotient(y * viewport_height, NormalizedRange)
    IN  << py_max(1, py_min(screen_x, viewport_width - 1)),
           py_max(1, py_min(screen_y, viewport_height - 1)) >>

\* viewports of a KernelBrowserSession: the default, two small ones and one
\* too small to hold a screen coordinate
SessionViewports ==
    { [viewport_width |-> 1920, viewport_height |-> 1080],
      [viewport_width |-> 1024, viewport_height |-> 768],
      [viewport_width |-> 2, viewport_height |-> 3],
      [viewport_width |-> 7, viewport_height |-> 2],
      [viewport_width |-> 1, viewport_height |-> 1] }

AllCoords == (0 - CoordSlack)..(NormalizedRange + CoordSlack)

FewCoords ==
    { 0 - CoordSlack * NormalizedRange, 0 - 1, 0, 1, NormalizedRange \div 2,
      NormalizedRange - 1, NormalizedRange, NormalizedRange + 1,
      CoordSlack * NormalizedRange }

InitDenorm ==
    /\ FunctionIdle
    /\ pc = "input"
    /\ \E v \in SessionViewports :
          \/ \E x \in AllCoords, y \in FewCoords :
                arg = [x |-> x, y |-> y, viewport |-> v]
          \/ \E x \in FewCoords, y \in AllCoords :
                arg = [x |-> x, y |-> y, viewport |-> v]
    /\ ret = None

ApplyDenormalizeCoords ==
    /\ pc = "input"
    /\ ret' = denormalize_coords(arg.x, arg.y, arg.viewport.viewport_width,
                                 arg.viewport.viewport_height)
    /\ pc' = "denorm_out"
    /\ UNCHANGED << messages, stop_reason, tool_result_content, idx,
                    only_n_most_recent_images, image_truncation_threshold,
                    arg_images, calls, exc, dispatched, prev, arg >>

NextDenorm == ApplyDenormalizeCoords

SpecDenorm == InitDenorm /\ [][NextDenorm]_vars

(***************************************************************************)
(* openagi/kernel_session.py: the life of a KernelBrowserSession, with the *)
(* action handler and the screenshot provider that hold it.  arg is the    *)
(* session object together with the browser service it talks to:           *)
(*   session_id  0 is None, otherwise the id of the created browser        *)
(*   _kernel     FALSE is None                                             *)
(*   where       "new", "inside" the async with body, "enter_failed",      *)
(*               "exited"                                                  *)
(*   created     browsers created so far                                   *)
(*   live        ids of the browsers the service still runs                *)
(*   deletes     the delete_by_id calls received by the service            *)
(* ret is the outcome of the last call on the object.                      *)
(***************************************************************************)
MaxSessions == 3     \* entries of one session object that create a browser

NewSession ==
    [session_id |-> 0, _kernel |-> FALSE, where |-> "new", created |-> 0,
     live |-> {}, deletes |-> << >>]

Outcome(call, raised, reached) ==
    [call |-> call, raised |-> raised, reached |-> reached]

\* __aenter__; created tells whether browsers.create returned
KernelBrowserSession_aenter(self, created) ==
    IF created
    THEN [self EXCEPT !._kernel = TRUE,
                      !.session_id = self.created + 1,
                      !.created = self.created + 1,
                      !.live = self.live \cup {self.created + 1},
                      !.where = "inside"]
    ELSE [self EXCEPT !._kernel = TRUE, !.where = "enter_failed"]

\* __aexit__; deleted tells whether browsers.delete_by_id returned
KernelBrowserSession_aexit(self, deleted) ==
    IF self._kernel /\ self.session_id # 0
    THEN IF deleted
         THEN [self EXCEPT !.deletes = Append(self.deletes, self.session_id),
                           !.live = self.live \ {self.session_id},
                           !.session_id = 0,
                           !._kernel = FALSE,
                           !.where = "exited"]
         ELSE [self EXCEPT !.deletes = Append(self.deletes, self.session_id),
                           !.where = "exited"]
    ELSE [self EXCEPT !.session_id = 0, !._kernel = FALSE, !.where = "exited"]

\* a call of the computer API with id = session_id through session.kernel
ComputerApiCall(self, call) ==
    IF ~self._kernel THEN Outcome(call, "RuntimeError", 0)
    ELSE IF self.session_id \in self.live
    THEN Outcome(call, "", self.session_id)
    ELSE Outcome(call, "APIError", self.session_id)

\* the kernel property
KernelBrowserSession_kernel(self) ==
    IF ~self._kernel THEN Outcome("kernel", "RuntimeError", 0)
    ELSE Outcome("kernel", "", 0)

\* KernelActionHandler.__call__ with one action to execute
KernelActionHandler_call(self) ==
    IF self.session_id = 0 THEN Outcome("handler", "RuntimeError", 0)
    ELSE ComputerApiCall(self, "handler")

\* KernelScreenshotProvider.__call__
KernelScreenshotProvider_call(self) ==
    IF self.session_id = 0 THEN Outcome("provider", "RuntimeError", 0)
    ELSE ComputerApiCall(self, "provider")

InitSession ==
    /\ FunctionIdle
    /\ pc = "session"
    /\ arg = NewSession
    /\ ret = None

SessionStep(object, outcome) ==
    /\ arg' = object
    /\ ret' = outcome
    /\ UNCHANGED << messages, pc, stop_reason, tool_result_content, idx,
                    only_n_most_recent_images, image_truncation_threshold,
                    arg_images, calls, exc, dispatched, prev >>

EnterSession ==
    /\ pc = "session"
    /\ arg.where # "inside"
    /\ arg.created < MaxSessions
    /\ \E created \in BOOLEAN :
          SessionStep(KernelBrowserSession_aenter(arg, created),
                      Outcome("enter", IF created THEN "" ELSE "APIError", 0))

\* the body of the async with ends, normally or with an exception
ExitSession ==
    /\ pc = "session"
    /\ arg.where = "inside"
    /\ \E deleted \in BOOLEAN, body \in {"", "Exception"} :
          SessionStep(KernelBrowserSession_aexit(arg, deleted),
                      Outcome("exit", IF deleted THEN body ELSE "APIError", 0))

ReadKernel ==
    /\ pc = "session"
    /\ SessionStep(arg, KernelBrowserSession_kernel(arg))

CallActionHandler ==
    /\ pc = "session"
    /\ SessionStep(arg, KernelActionHandler_call(arg))

CallScreenshotProvider ==
    /\ pc = "session"
    /\ SessionStep(arg, KernelScreenshotProvider_call(arg))

NextSession ==
    \/ EnterSession
    \/ ExitSession
    \/ ReadKernel
    \/ CallActionHandler
    \/ CallScreenshotProvider

SpecSession == InitSession /\ [][NextSession]_vars

(***************************************************************************)
(* Properties of the policies.                                             *)
(***************************************************************************)
PolicyDone == pc \in {"loop_out", "utils_out"}

\* user turns with list content, and all user turns, of a history
ListUserTurns(msgs) ==
    { i \in 1..Len(msgs) : msgs[i].role = "user" /\ ~msgs[i].is_str }

\* 1 for the most recent turn of S, 2 for the one before it, ...
Recency(S, i) == Cardinality({ j \in S : j >= i })

CarriesMarker(m) ==
    /\ ~m.is_str
    /\ m.content # << >>
    /\ Last(m.content).cache_control

\* C8 (as stated): after one injection into a history with at least 4 user
\* turns, a user turn carries a cache marker on its last block exactly when it
\* is one of the 3 most recent user turns.  (User turns are taken to be those
\* that have content blocks; a string content has no last block.)
C8_ExactlyThreeMostRecentMarked ==
    (PolicyDone /\ Cardinality(ListUserTurns(prev)) >= 4) =>
        \A i \in ListUserTurns(messages) :
            CarriesMarker(messages[i]) <=> Recency(ListUserTurns(messages), i) <= 3

\* C8 (amended): after one injection into a history with at least 4 user
\* turns that have list content, the 3 most recent of them carry a marker on
\* their last block, the fourth most recent carries none, and every other
\* message, the older user turns and their markers included, is as it was.
C8_ThreeMarkedFourthCleared ==
    (PolicyDone /\ Cardinality(ListUserTurns(prev)) >= 4) =>
        /\ Len(messages) = Len(prev)
        /\ \A i \in 1..Len(prev) :
              LET r == Recency(ListUserTurns(prev), i) IN
              IF i \in ListUserTurns(prev) /\ r <= 3
              THEN /\ CarriesMarker(messages[i])
                   /\ messages[i] = SetLastCacheControl(prev[i], TRUE)
              ELSE IF i \in ListUserTurns(prev) /\ r = 4
              THEN /\ ~CarriesMarker(messages[i])
                   /\ messages[i] = SetLastCacheControl(prev[i], FALSE)
              ELSE messages[i] = prev[i]

\* C8 witness: an injection into a history of 5 marked list-content user
\* turns cleared the fourth most recent and left the oldest marked.
C8_Witness ==
    /\ pc = "loop_out"
    /\ Cardinality(ListUserTurns(prev)) = 5
    /\ \A i \in ListUserTurns(prev) : CarriesMarker(prev[i])
    /\ Cardinality({ i \in ListUserTurns(messages) : CarriesMarker(messages[i]) }) = 4

\* the largest multiple of chunk that is at most total - keep, or 0
ExpectedRemoved(total, keep, chunk) ==
    IF total <= keep THEN 0
    ELSE CHOOSE r \in 0..total :
             r % chunk = 0 /\ r <= total - keep /\ r + chunk > total - keep

\* C10: image-retention pruning removes exactly max(0, floor((T - K) / C) * C)
\* images, the oldest ones in history order, and nothing else: every message,
\* every block and every non-image entry of a tool result is kept in place.
C10_RemovesOldestChunkedImages ==
    PolicyDone =>
        LET T == TotalImages(prev)
            R == ExpectedRemoved(T, only_n_most_recent_images,
                                 image_truncation_threshold)
            Kept(b) == b.type # "image" \/ b.data > R
        IN  /\ TotalImages(messages) = T - R
            /\ Len(messages) = Len(prev)
            /\ \A i \in 1..Len(prev) :
                  /\ messages[i].role = prev[i].role
                  /\ messages[i].is_str = prev[i].is_str
                  /\ Len(messages[i].content) = Len(prev[i].content)
                  /\ \A j \in 1..Len(prev[i].content) :
                        LET old == prev[i].content[j]
                            new == messages[i].content[j]
                        IN  IF old.type = "tool_result" /\ ~old.is_str
                            THEN new = [old EXCEPT
                                          !.content = SelectSeq(old.content, Kept)]
                            ELSE new = old

\* C10 witness: 10 images, limit 4, chunk 3: 6 were removed and 4 are left.
C10_Witness ==
    /\ pc = "loop_out"
    /\ TotalImages(prev) = 10
    /\ only_n_most_recent_images = 4
    /\ image_truncation_threshold = 3
    /\ TotalImages(messages) = 4

PolicyTwice == pc \in {"loop_twice", "utils_twice"}

\* C11: image-retention pruning is idempotent: applied a second time with the
\* same limit and chunk, right after the first, it removes nothing and leaves
\* the history exactly as the first application left it.
C11_PruningIdempotent ==
    PolicyTwice => messages = prev

\* C11 witness: the second application has run on a history that the first
\* one left with 6 images, more than the limit of 4 and less than a chunk
\* above it.
C11_Witness ==
    /\ pc = "loop_twice"
    /\ only_n_most_recent_images = 4
    /\ image_truncation_threshold = 3
    /\ TotalImages(prev) = 6
    /\ TotalImages(messages) = 6

\* the positions (message, block) of the blocks that carry a cache marker
MarkerPositions(msgs) ==
    { << i, j >> \in (1..Len(msgs)) \X (1..2) :
          /\ ~msgs[i].is_str
          /\ j <= Len(msgs[i].content)
          /\ msgs[i].content[j].cache_control }

\* C12: cache-control injection is idempotent: applied a second time right
\* after the first, it changes no cache marker (and nothing else either).
C12_InjectionIdempotent ==
    PolicyTwice =>
        /\ MarkerPositions(messages) = MarkerPositions(prev)
        /\ messages = prev

\* C12 witness: the injection ran twice on a history of 5 list-content user
\* turns, the second run on the 4 markers the first one left.
C12_Witness ==
    /\ pc = "loop_twice"
    /\ Cardinality(ListUserTurns(prev)) = 5
    /\ Cardinality(MarkerPositions(prev)) = 4
    /\ Cardinality(MarkerPositions(messages)) = 4

(***************************************************************************)
(* Properties of the tool_result conversion.                               *)
(***************************************************************************)
\* the error of a result is set: it is a non-empty string (the code tests its
\* truth value)
ErrorSet(result) == result.error.t = "str" /\ result.error.s # ""

\* the texts a tool_result block carries: its string content, or the text
\* entries of its list content
BlockTexts(block) ==
    IF block.is_str THEN {block.text}
    ELSE { block.content[j].text :
               j \in { k \in 1..Len(block.content) : block.content[k].type = "text" } }

BlockHasImage(block) ==
    \E j \in 1..Len(block.content) : block.content[j].type = "image"

\* C13: the tool_result block built from a ToolResult whose error is set has
\* is_error = true and carries the error text (after the system annotation,
\* if there is one) and nothing else: neither the output text nor the image.
\* The block built from a ToolResult whose error is not set has is_error =
\* false.  In both cases it bears the tool_use id it was built for.
C13_ErrorResultIsFlagged ==
    (pc \in {"loop_out", "utils_out"}) =>
        /\ ret.type = "tool_result"
        /\ ret.id = arg.tool_use_id
        /\ IF ErrorSet(arg)
           THEN /\ ret.is_error
                /\ BlockTexts(ret) =
                      { IF arg.system = None THEN "boom"
                        ELSE "<system>sys</system>\nboom" }
                /\ ~BlockHasImage(ret)
           ELSE ~ret.is_error

\* C13 witness: a block was built from a result that has an error, an output
\* and an image at once.
C13_Witness ==
    /\ pc = "utils_out"
    /\ arg.error = PStr("boom")
    /\ arg.output = PStr("out")
    /\ arg.base64_image = PInt(1)
    /\ ret.is_error

(***************************************************************************)
(* Properties of the computer tool and of the action validator.            *)
(***************************************************************************)
ToolDone == pc = "tool_out"
ValidatorDone == pc = "validator_out"

ClickActions ==
    {"left_click", "right_click", "middle_click", "double_click", "triple_click"}

\* C14: a call of a pointer action (mouse_move, left_click_drag, left_click,
\* right_click, middle_click, double_click, triple_click) that supplies no
\* coordinate is rejected with a ToolError.
C14_PointerWithoutCoordinateIsToolError ==
    (/\ ToolDone
     /\ ret.ok                       \* the page itself works
     /\ arg.action.s \in PointerActions
     /\ arg.coordinate = NoCoord) => ret.outcome.kind = "ToolError"

\* a pair of non-negative numbers (ints only, or ints and floats), as a tuple
\* or as a list
IsPairOf(c, types) ==
    /\ c.form \in {"tuple", "list"}
    /\ Len(c.xs) = 2
    /\ \A k \in 1..2 : c.xs[k].t \in types /\ c.xs[k].n >= 0

\* C15 (as stated): each coordinate validation accepts every tuple or list of
\* two non-negative ints or floats and returns it as the same pair, and
\* rejects every other coordinate value with a ToolError.
C15_AcceptsIntAndFloatPairs ==
    ((ToolDone \/ ValidatorDone) /\ arg # NoCoord) =>
        IF IsPairOf(arg, {"int", "float"})
        THEN ret = [kind |-> "result", value |-> Tuple(arg.xs)]
        ELSE ret.kind = "ToolError"

\* C15 (amended): ActionValidator.validate_and_get_coordinates accepts every
\* tuple or list of two non-negative ints or floats; the computer tool's
\* validate_coordinates accepts every tuple or list of two non-negative ints
\* and rejects a pair with a float component.  Both return the pair as a
\* tuple, the same for the tuple and the list form, and reject every other
\* value with a ToolError, except that the tool's validation passes None on.
C15_ValidatorFloatsToolIntsOnly ==
    /\ ValidatorDone =>
          IF IsPairOf(arg, {"int", "float"})
          THEN ret = [kind |-> "result", value |-> Tuple(arg.xs)]
          ELSE ret.kind = "ToolError"
    /\ ToolDone =>
          IF arg = NoCoord THEN ret = [kind |-> "result", value |-> NoCoord]
          ELSE IF IsPairOf(arg, {"int"})
          THEN ret = [kind |-> "result", value |-> Tuple(arg.xs)]
          ELSE ret.kind = "ToolError"

\* C15 witness: the validator returned the list [1.5, 7] as the tuple (1.5, 7).
C15_Witness ==
    /\ ValidatorDone
    /\ arg = List(<< PFloat(3), PInt(7) >>)
    /\ ret = [kind |-> "result", value |-> Tuple(<< PFloat(3), PInt(7) >>)]

\* C16: a call of a keyboard action (key, type, hold_key) that supplies no
\* text is rejected with a ToolError, and one whose text is not a string is
\* rejected (it raises; the validator raises a ToolError).
C16_KeyboardNeedsStringText ==
    /\ (ToolDone /\ arg.action.s \in KeyboardActions) =>
          /\ IsNone(arg.text) => ret.outcome.kind = "ToolError"
          /\ (arg.text.t # "str") => ret.outcome.kind # "result"
    /\ (/\ ValidatorDone
        /\ arg.action.s \in ret.keyboard_actions
        /\ arg.text.t # "str") => ret.outcome.kind = "ToolError"

\* C16 witness: hold_key was called with a valid duration and no text.
C16_Witness ==
    /\ ToolDone
    /\ arg.action.s = "hold_key"
    /\ arg.duration = PInt(1)
    /\ IsNone(arg.text)
    /\ ret.outcome.kind = "ToolError"

\* the call carries a parameter that its action forbids
CarriesForbidden(call) ==
    \/ /\ call.action.s \in {"mouse_move", "left_click_drag"} \cup ClickActions
                             \cup {"screenshot", "cursor_position"}
       /\ ~IsNone(call.text)
    \/ /\ call.action.s \in {"key", "type", "left_mouse_down", "left_mouse_up"}
       /\ call.coordinate # NoCoord

\* C17 (as stated): a call carrying a parameter that its action forbids (text
\* with mouse_move, left_click_drag, a click action, screenshot or
\* cursor_position; coordinate with key, type, left_mouse_down or
\* left_mouse_up) is rejected with a ToolError, by the tool and by the action
\* validator alike.
C17_ForbiddenParameterIsToolError ==
    ((ToolDone \/ ValidatorDone) /\ CarriesForbidden(arg)) =>
        ret.outcome.kind = "ToolError"

\* C17 (amended): the computer tool rejects every call carrying a parameter
\* that its action forbids with a ToolError.  The action validator has no
\* forbidden parameters: it rejects a call only for a required text or
\* coordinate that is missing, a text that is not a string, a coordinate that
\* is not a valid pair, or a bad duration of hold_key and wait.
C17_ToolRejectsForbiddenParameter ==
    /\ (ToolDone /\ CarriesForbidden(arg)) => ret.outcome.kind = "ToolError"
    /\ ValidatorDone =>
          (ret.outcome.kind = "ToolError" <=>
              \/ arg.action.s \in ret.keyboard_actions /\ IsNone(arg.text)
              \/ arg.text.t \notin {"none", "str"}
              \/ arg.action.s \in ret.mouse_actions /\ arg.coordinate = NoCoord
              \/ arg.coordinate # NoCoord /\ ~IsPairOf(arg.coordinate, {"int", "float"})
              \/ /\ arg.action.s \in {"hold_key", "wait"}
                 /\ ~(/\ IsNumber(arg.duration)
                      /\ Twice(arg.duration) >= 0
                      /\ Twice(arg.duration) <= 2 * MaxDuration))

\* C17 witness: the tool rejected key called with a text and a coordinate.
C17_Witness ==
    /\ ToolDone
    /\ arg.action.s = "key"
    /\ arg.text = PStr("a")
    /\ arg.coordinate = List(<< PInt(100), PInt(50) >>)
    /\ ret.outcome.kind = "ToolError"

\* the duration is a number d with 0 <= d <= 100
DurationInRange(d) ==
    IsNumber(d) /\ 0 <= Twice(d) /\ Twice(d) <= 200

\* C18: hold_key and wait reject with a ToolError a duration that is missing,
\* not a number, below 0 or above 100, and accept every duration d with
\* 0 <= d <= 100, 0 and 100 included: the call then runs (given a text for
\* hold_key to press), and the validator raises nothing on account of it.
C18_DurationBetween0And100 ==
    /\ (ToolDone /\ arg.action.s \in {"hold_key", "wait"}) =>
          IF DurationInRange(arg.duration)
          THEN (ret.ok /\ (arg.action.s = "hold_key" => arg.text.t = "str"))
                   => ret.outcome.kind = "result"
          ELSE ret.outcome.kind = "ToolError"
    /\ (ValidatorDone /\ arg.action.s \in {"hold_key", "wait"}) =>
          IF DurationInRange(arg.duration)
          THEN (/\ validate_text(arg.text, arg.action.s \in ret.keyboard_actions)
                /\ validate_coordinate(arg.coordinate,
                                       arg.action.s \in ret.mouse_actions))
                   => ret.outcome.kind = "result"
          ELSE ret.outcome.kind = "ToolError"

\* C18 witness: wait ran with the boundary duration 100.
C18_Witness ==
    /\ ToolDone
    /\ arg.action.s = "wait"
    /\ arg.duration = PInt(100)
    /\ ret.outcome.kind = "result"

(***************************************************************************)
(* Properties of the sampling loop.                                        *)
(***************************************************************************)
\* the ids of the blocks of a type, in content order
RECURSIVE IdsOf(_, _)
IdsOf(content, type) ==
    IF content = << >> THEN << >>
    ELSE (IF Head(content).type = type THEN << Head(content).id >> ELSE << >>)
         \o IdsOf(Tail(content), type)

\* the tool_use ids of the assistant turns among the first n messages
RECURSIVE ToolUseIdsUpTo(_, _)
ToolUseIdsUpTo(msgs, n) ==
    IF n = 0 THEN << >>
    ELSE ToolUseIdsUpTo(msgs, n - 1)
         \o (IF msgs[n].role = "assistant"
             THEN IdsOf(msgs[n].content, "tool_use") ELSE << >>)

\* the tool_use block whose dispatch is awaited, or on which the loop raised
AtToolCall == idx # 0 /\ pc \in {"dispatch", "raised"}
CurrentBlock == Last(messages).content[idx]

\* C1: a tool_use naming an unregistered tool does not make the loop raise
\* (it is answered by an error tool_result and the loop goes on).
C1_UnknownToolDoesNotRaise ==
    ~(pc = "raised" /\ AtToolCall /\ CurrentBlock.name \notin RegisteredTools)

\* C2: a ToolError raised by a tool never leaves the sampling loop (it is
\* converted into an error tool_result).
C2_ToolErrorDoesNotPropagate ==
    ~(pc = "raised" /\ exc = "ToolError")

\* C7: a call to a registered tool whose input has no action, or an action
\* that is not recognized, does not make the loop raise.
C7_BadActionDoesNotRaise ==
    ~(/\ pc = "raised"
      /\ AtToolCall
      /\ CurrentBlock.name \in RegisteredTools
      /\ LET action == ToolInput(CurrentBlock.input).action
         IN  IsNone(action) \/ action.s \notin Action)

\* C3: every user turn the loop appended answers the assistant turn before it
\* with one tool_result per tool_use, in the same order and with the same ids;
\* the tool calls are made one at a time in that order, and a model call is
\* issued only once every tool_use of the earlier turns has been run.
C3_OneResultPerToolUseInOrder ==
    /\ \A i \in 2..Len(messages) :
          messages[i].role = "user" =>
              /\ messages[i - 1].role = "assistant"
              /\ \A j \in 1..Len(messages[i].content) :
                    messages[i].content[j].type = "tool_result"
              /\ IdsOf(messages[i].content, "tool_result")
                     = IdsOf(messages[i - 1].content, "tool_use")
    /\ \A i \in 1..(Len(messages) - 1) :
          messages[i].role = "assistant" => messages[i + 1].role = "user"
    /\ pc \in {"top", "model_call"} =>
          dispatched = ToolUseIdsUpTo(messages, Len(messages))
    /\ pc = "dispatch" =>
          /\ dispatched = ToolUseIdsUpTo(messages, Len(messages) - 1)
                          \o IdsOf(SubSeq(Last(messages).content, 1, idx - 1),
                                   "tool_use")
          /\ IdsOf(tool_result_content, "tool_result")
                 = IdsOf(SubSeq(Last(messages).content, 1, idx - 1), "tool_use")

\* C3 witness: a second model call is pending after a turn of two tool calls,
\* answered by two results.
C3_Witness ==
    /\ pc = "model_call"
    /\ calls = 2
    /\ Last(messages).role = "user"
    /\ Len(Last(messages).content) = 2
    /\ Len(IdsOf(messages[Len(messages) - 1].content, "tool_use")) = 2

\* C4: on a response with stop reason end_turn the loop appends the assistant
\* message and returns at once: no tool is dispatched, no user turn is
\* appended, no model call follows, even if the response holds tool_use blocks.
C4_EndTurnReturnsAtOnce ==
    [][ /\ (pc = "model_call" /\ stop_reason' = "end_turn") =>
              /\ pc' = "done"
              /\ Len(messages') = Len(messages) + 1
              /\ SubSeq(messages', 1, Len(messages)) = messages
              /\ Last(messages').role = "assistant"
              /\ dispatched' = dispatched
              /\ calls' = calls
        /\ (stop_reason = "end_turn") => (stop_reason' = "end_turn" /\ pc = "done")
        /\ (pc = "done") => UNCHANGED vars ]_vars

\* C4 witness: the loop has returned on an end_turn response that holds a
\* tool_use block.
C4_Witness ==
    /\ pc = "done"
    /\ stop_reason = "end_turn"
    /\ IdsOf(Last(messages).content, "tool_use") # << >>

\* C5: a response without tool_use block ends the loop whatever its stop
\* reason: the history is returned, nothing is raised, and a model call after
\* the first is only ever issued on a history that ends with a user turn
\* holding at least one tool_result.
C5_NoToolUseIsTerminal ==
    /\ [][ (/\ pc = "model_call"
            /\ pc' # "raised"
            /\ IdsOf(Last(messages').content, "tool_use") = << >>)
           => (/\ pc' = "done"
               /\ exc' = ""
               /\ Last(messages').role = "assistant") ]_vars
    /\ [][ (pc' = "model_call" /\ calls' >= 2) =>
              /\ Last(messages').role = "user"
              /\ IdsOf(Last(messages').content, "tool_result") # << >> ]_vars
    /\ [][ (pc = "done") => UNCHANGED vars ]_vars

\* C5 witness: the loop has returned on an empty response whose stop reason
\* is not end_turn.
C5_Witness ==
    /\ pc = "done"
    /\ stop_reason = "max_tokens"
    /\ Last(messages).role = "assistant"
    /\ Last(messages).content = << >>

\* C6: a failed model call leaves the loop as an exception: nothing is
\* appended, no tool is dispatched, and no model call is made afterwards.
C6_ModelFailurePropagates ==
    [][ /\ (pc = "model_call" /\ pc' \notin {"done", "dispatch"}) =>
              /\ pc' = "raised"
              /\ exc' = "APIError"
              /\ messages' = messages
              /\ dispatched' = dispatched
              /\ calls' = calls
        /\ (exc = "APIError") => UNCHANGED vars ]_vars

\* C6 witness: the second model call of a run failed.
C6_Witness == pc = "raised" /\ exc = "APIError" /\ calls = 2

\* the number of images inside the tool results of message i
C9_ImagesAt(msgs, i) ==
    IF msgs[i].is_str THEN 0 ELSE BlockImages(msgs[i].content)

C19_EveryToolCallAttempted ==
    (/\ pc \in {"top", "done", "raised"}
     /\ stop_reason # "end_turn"
     /\ exc \in {"", "ToolError", "ValueError"}) =>
        dispatched = ToolUseIdsUpTo(messages, Len(messages))

\* the assistant turns of a history
AssistantTurns(msgs) == { i \in 1..Len(msgs) : msgs[i].role = "assistant" }

\* the loop has returned on a first response that is an end_turn without
\* tool_use block
FirstResponseCompletes ==
    /\ pc = "done"
    /\ stop_reason = "end_turn"
    /\ Cardinality(AssistantTurns(messages)) = 1
    /\ IdsOf(Last(messages).content, "tool_use") = << >>

\* C20 (as stated): when the first response signals natural completion with no
\* tool calls, the loop has made exactly one model call, has dispatched no
\* tool, and returns a history of length 1, just the assistant turn.
C20_ReturnsHistoryOfLengthOne ==
    FirstResponseCompletes =>
        /\ calls = 1
        /\ dispatched = << >>
        /\ Len(messages) = 1
        /\ Last(messages).role = "assistant"

\* C20 (amended): when the first response signals natural completion with no
\* tool calls, the loop has made exactly one model call, has dispatched no
\* tool, and returns the history it was given followed by the assistant turn
\* (length 2 for the one user message the task passes); the given messages
\* are as they were, but for the cache marker set on the last block of a user
\* turn with list content.
C20_ReturnsGivenHistoryPlusAssistantTurn ==
    FirstResponseCompletes =>
        /\ calls = 1
        /\ dispatched = << >>
        /\ Len(messages) = Len(prev) + 1
        /\ Last(messages).role = "assistant"
        /\ \A i \in 1..Len(prev) :
              messages[i] = IF prev[i].role = "user" /\ ~prev[i].is_str
                            THEN SetLastCacheControl(prev[i], TRUE)
                            ELSE prev[i]

\* C20 witness: called with one user message (a string), the loop has
\* returned two messages after a first response of one text block.
C20_Witness ==
    /\ FirstResponseCompletes
    /\ prev = << StrMessage("user") >>
    /\ Len(messages) = 2
    /\ Last(messages).content = << TextBlock("t") >>

\* the input of the tool_use with the given id in an assistant turn
InputOf(content, id) ==
    LET j == CHOOSE k \in 1..Len(content) :
                 content[k].type = "tool_use" /\ content[k].id = id
    IN  content[j].input

C22_CapabilityFailureDoesNotRaise ==
    ~(/\ pc = "raised"
      /\ AtToolCall
      /\ exc = "Exception"
      /\ CurrentBlock.name = "computer"
      /\ CurrentBlock.input = "click")

\* the positions of the wheel events among the page calls of the last call
WheelEvents == { k \in 1..Len(ret.page) : ret.page[k].op = "mouse.wheel" }

ValidPair(coordinate) ==
    /\ coordinate.form \in {"tuple", "list"}
    /\ Len(coordinate.xs) = 2
    /\ \A k \in 1..2 : coordinate.xs[k].t = "int" /\ coordinate.xs[k].n >= 0

\* a scroll call whose direction is one of the four and whose coordinate is
\* left out or a valid pair
ScrollCall ==
    /\ ToolDone
    /\ arg.action = PStr("scroll")
    /\ arg.scroll_direction.t = "str"
    /\ arg.scroll_direction.s \in {"up", "down", "left", "right"}
    /\ arg.coordinate.form = "none" \/ ValidPair(arg.coordinate)

\* C23: a scroll of the computer tool with an amount > 0 issues one wheel
\* event (when the page calls succeed), with a non-zero delta on exactly one
\* axis: the vertical one, positive for down and negative for up, or the
\* horizontal one, positive for right and negative for left; when a coordinate
\* is given the pointer is moved to it before the wheel event, and without one
\* the pointer is not moved.
C23_ScrollWheelDelta ==
    (ScrollCall /\ arg.scroll_amount.t = "int" /\ arg.scroll_amount.n > 0) =>
        /\ ret.ok => Cardinality(WheelEvents) = 1
        /\ \A k \in WheelEvents :
              LET wheel == ret.page[k]
                  direction == arg.scroll_direction.s
              IN  /\ direction = "down" => wheel.delta_y > 0 /\ wheel.delta_x = 0
                  /\ direction = "up" => wheel.delta_y < 0 /\ wheel.delta_x = 0
                  /\ direction = "right" => wheel.delta_x > 0 /\ wheel.delta_y = 0
                  /\ direction = "left" => wheel.delta_x < 0 /\ wheel.delta_y = 0
                  /\ arg.coordinate.form # "none" =>
                         /\ k > 1
                         /\ ret.page[1] = PointerCall("mouse.move", arg.coordinate)
                  /\ arg.coordinate.form = "none" =>
                         \A m \in 1..Len(ret.page) : ret.page[m].op # "mouse.move"

\* C23 witness: a scroll to the left by 3 at (100, 50) moved the pointer
\* there and then issued a wheel event with a negative horizontal delta.
C23_Witness ==
    /\ ScrollCall
    /\ ret.ok
    /\ arg.scroll_direction = PStr("left")
    /\ arg.scroll_amount = PInt(3)
    /\ arg.coordinate = List(<< PInt(100), PInt(50) >>)
    /\ ret.page[1].op = "mouse.move" /\ ret.page[1].x = 100 /\ ret.page[1].y = 50
    /\ \E k \in WheelEvents : k > 1 /\ ret.page[k].delta_x < 0 /\ ret.page[k].delta_y = 0

\* C24 as stated: a scroll call with a valid direction and no amount is
\* accepted and issues a wheel event.
C24_ScrollWithoutAmountIsAccepted ==
    (ScrollCall /\ IsNone(arg.scroll_amount) /\ IsNone(arg.text) /\ ret.ok) =>
        /\ ret.outcome.kind = "result"
        /\ WheelEvents # {}

\* C24: a scroll call with a valid direction that specifies no amount is
\* rejected with ToolError before any page call; a scroll call is accepted
\* only with an amount that is an int and not negative, and there is no
\* default magnitude.
C24_ScrollNeedsAmount ==
    ScrollCall =>
        /\ IsNone(arg.scroll_amount) =>
               ret.outcome.kind = "ToolError" /\ ret.page = << >>
        /\ ret.outcome.kind = "result" =>
               arg.scroll_amount.t = "int" /\ arg.scroll_amount.n >= 0
        /\ (arg.scroll_amount.t = "int" /\ arg.scroll_amount.n >= 0 /\ ret.ok) =>
               ret.outcome.kind = "result"

\* C24 witness: a scroll down without an amount was rejected.
C24_Witness ==
    /\ ScrollCall
    /\ arg.scroll_direction = PStr("down")
    /\ IsNone(arg.scroll_amount)
    /\ ret.ok
    /\ ret.outcome.kind = "ToolError"
    /\ ret.page = << >>

\* the actions the 20250124 tool adds to those of the 20241022 tool
Actions20250124 ==
    {"scroll", "wait", "hold_key", "triple_click", "left_mouse_down",
     "left_mouse_up"}

\* the page call that carries out each of them (wait only sleeps and then
\* takes the screenshot)
ActionPageCall(action) ==
    CASE action = "scroll" -> "mouse.wheel"
      [] action = "wait" -> "screenshot"
      [] action = "hold_key" -> "keyboard.down"
      [] action = "triple_click" -> "mouse.click"
      [] action = "left_mouse_down" -> "mouse.down"
      [] action = "left_mouse_up" -> "mouse.up"

\* the parameters of arg are those the action takes
WellFormedCall ==
    LET action == arg.action.s IN
    /\ action \in {"left_mouse_down", "left_mouse_up"} =>
           arg.coordinate.form = "none"
    /\ action = "scroll" =>
           /\ arg.scroll_direction.t = "str"
           /\ arg.scroll_direction.s \in {"up", "down", "left", "right"}
           /\ arg.scroll_amount.t = "int" /\ arg.scroll_amount.n >= 0
           /\ arg.coordinate.form = "none" \/ ValidPair(arg.coordinate)
    /\ action \in {"wait", "hold_key"} => DurationInRange(arg.duration)
    /\ action = "hold_key" => arg.text.t = "str"
    /\ action = "triple_click" => IsNone(arg.text) /\ ValidPair(arg.coordinate)

\* C28: with tool version computer_use_20241022 each of scroll, wait,
\* hold_key, triple_click, left_mouse_down and left_mouse_up is rejected with
\* ToolError (invalid action) and no page call is made, whatever its
\* parameters; with computer_use_20250124 and computer_use_20250429 a call of
\* one of them with the parameters it takes is accepted, makes its page call
\* and returns the screenshot.
C28_VersionAwareDispatch ==
    /\ (pc = "tool2024_out" /\ arg.action.s \in Actions20250124) =>
           /\ ret.version = "computer_use_20241022"
           /\ ret.outcome.kind = "ToolError"
           /\ ret.page = << >>
    /\ (pc = "tool_out" /\ arg.action.s \in Actions20250124
            /\ WellFormedCall /\ ret.ok) =>
           /\ ret.version \in {"computer_use_20250124", "computer_use_20250429"}
           /\ ret.outcome.kind = "result"
           /\ ret.outcome.result.base64_image = 1
           /\ \E k \in 1..Len(ret.page) :
                  ret.page[k].op = ActionPageCall(arg.action.s)
    /\ (pc \in {"tool_out", "tool2024_out"} /\ arg.action.s \notin Actions20250124) =>
           /\ ret.outcome = BaseComputerTool_call(arg, ret.ok, 1)
           /\ (pc = "tool2024_out" /\ ret.ok) => ret.page = BaseComputerTool_page(arg)

\* C28 witness: a well-formed scroll was rejected by the 20241022 tool
C28_Witness ==
    /\ pc = "tool2024_out"
    /\ arg.action = PStr("scroll")
    /\ WellFormedCall
    /\ arg.scroll_amount = PInt(3)
    /\ ret.ok
    /\ ret.outcome.kind = "ToolError"
    /\ ret.page = << >>

\* the canonical name of a part in the tables of tools/computer.py and of
\* KeyboardUtils, whichever table holds it
InTables(part) ==
    Has(MODIFIER_KEY_MAP, Lower(part)) \/ Has(KEY_MAP, Lower(part))

Canonical(part) ==
    Get(MODIFIER_KEY_MAP, Lower(part), Get(KEY_MAP, Lower(part), part))

InUtilsTables(part) ==
    \/ Has(KeyboardUtils_modifier_key_map, Lower(part))
    \/ Has(KeyboardUtils_key_map, Lower(part))

UtilsCanonical(part) ==
    Get(KeyboardUtils_key_map, Lower(part),
        Get(KeyboardUtils_modifier_key_map, Lower(part), part))

\* C25: for a key combination of any number of parts joined by '+', each part
\* that is in the lookup tables is replaced by its canonical name, wherever it
\* stands in the combination, and the number of parts is kept:
\* "ctrl+alt+delete" gives Control, Alt, Delete and "ctrl+return" gives
\* Control, Enter.
C25_EachPartNormalized ==
    /\ pc = "map_key_out" =>
           /\ Len(ret.value) = Len(arg)
           /\ \A k \in 1..Len(arg) :
                  InTables(arg[k]) => ret.value[k] = Canonical(arg[k])
    /\ (pc = "parse_out" /\ ret.kind = "result") =>
           /\ Len(ret.value) = Len(arg)
           /\ \A k \in 1..Len(arg) :
                  InUtilsTables(arg[k]) => ret.value[k] = UtilsCanonical(arg[k])

\* C26 as stated: a key name that is in no lookup table comes back unchanged
\* when it is a single character and title-cased when it is longer.
C26_UnknownKeyUnchangedOrTitleCased ==
    LET key == arg[1]
        fallback == IF Len(key) = 1 THEN key ELSE Title(key)
    IN
    /\ (pc = "translate_out" /\ key # "" /\ ~Has(XDOTOOL_KEY_MAP, Lower(Strip(key))))
           => ret.value = << fallback >>
    /\ (pc = "map_key_out" /\ Len(arg) = 1 /\ key # "" /\ ~InTables(key))
           => ret.value = << fallback >>
    /\ (pc = "get_key_out" /\ key # "" /\ ~InUtilsTables(key))
           => ret.value = << fallback >>

\* C26: a key name that is in no lookup table comes back from the openagi
\* handler's _translate_key unchanged (case preserved) when it is a single
\* character and capitalized (first character upper case, the rest lower
\* case) when it is longer; map_key and get_playwright_key of the computer-use
\* tool return it unchanged whatever its length.
C26_UnknownKeyFallback ==
    LET key == arg[1] IN
    /\ (pc = "translate_out" /\ key # "" /\ ~Has(XDOTOOL_KEY_MAP, Lower(Strip(key))))
           => /\ ret.kind = "result"
              /\ ret.value = << IF Len(key) = 1 THEN key ELSE Capitalize(key) >>
    /\ (pc = "map_key_out" /\ Len(arg) = 1 /\ key # "" /\ ~InTables(key))
           => ret = KeyResult(<< key >>)
    /\ (pc = "get_key_out" /\ key # "" /\ ~InUtilsTables(key))
           => ret = KeyResult(<< key >>)

\* C26 witness: the unknown name FOO came back from _translate_key as Foo
C26_Witness ==
    /\ pc = "translate_out"
    /\ arg = << "FOO" >>
    /\ ~Has(XDOTOOL_KEY_MAP, "foo")
    /\ ret.value = << "Foo" >>

\* a block, and a message, without what the context policies may change in
\* place: the cache marker, and the images inside a tool result
WithoutImages(content) ==
    LET RECURSIVE Keep(_)
        Keep(c) == IF c = << >> THEN << >>
                   ELSE IF Head(c).type = "image" THEN Keep(Tail(c))
                   ELSE << Head(c) >> \o Keep(Tail(c))
    IN  Keep(content)

BlockFrame(block) ==
    [block EXCEPT !.cache_control = FALSE,
                  !.content = IF block.type = "tool_result"
                              THEN WithoutImages(block.content)
                              ELSE block.content]

MessageFrame(m) ==
    [m EXCEPT !.content = [j \in 1..Len(m.content) |-> BlockFrame(m.content[j])]]

\* C27: no step of the loop (the context policies run inside it) removes,
\* reorders or replaces a message or a block of the history: the history only
\* grows at its end, and every message already in it keeps its position, its
\* role, and its blocks in their order, each unchanged but for the cache
\* marker and the images inside a tool result; so the tool_use blocks and the
\* tool_result blocks answering them stay where they are.
C27_HistoryIsAppendOnly ==
    [][/\ Len(messages') >= Len(messages)
       /\ \A i \in 1..Len(messages) :
             /\ messages'[i].role = messages[i].role
             /\ Len(messages'[i].content) = Len(messages[i].content)
             /\ MessageFrame(messages'[i]) = MessageFrame(messages[i])]_vars

\* C27 witness: the fifth model call is pending on a history that has grown
\* by eight messages, whose first tool_result still answers the first
\* tool_use, and in which a marker set earlier has been removed again.
C27_Witness ==
    /\ pc = "model_call"
    /\ calls = 5
    /\ Len(prev) = 1
    /\ Len(messages) = Len(prev) + 8
    /\ messages[2].content[1].type = "tool_use"
    /\ messages[3].content[1].type = "tool_result"
    /\ messages[3].content[1].id = messages[2].content[1].id
    /\ ~CarriesMarker(messages[3])
    /\ CarriesMarker(Last(messages))

\* the user turns of the history that carry a cache marker
MarkedUserTurns ==
    { i \in 1..Len(messages) : messages[i].role = "user" /\ CarriesMarker(messages[i]) }

\* C29: in a run of the sampling loop started from a history without cache
\* markers, the history of every model call has at most 3 user turns that
\* carry a cache marker; they are exactly the most recent user turns with list
\* content (3 of them, or all when there are fewer), marked on their last
\* block, and no other block of the history is marked.
C29_AtMostThreeMarkedAtEveryCall ==
    pc = "model_call" =>
        LET L == ListUserTurns(messages) IN
        /\ Cardinality(MarkedUserTurns) <= 3
        /\ MarkedUserTurns = { i \in L : Recency(L, i) <= 3 }
        /\ MarkerPositions(messages)
               = { << i, Len(messages[i].content) >> : i \in MarkedUserTurns }

\* C29 witness: the fifth model call of a run is pending; the history has at
\* least 5 user turns with list content, 3 of them marked.
C29_Witness ==
    /\ pc = "model_call"
    /\ calls = 5
    /\ Cardinality(ListUserTurns(messages)) >= 5
    /\ Cardinality(MarkedUserTurns) = 3
    /\ \E i \in ListUserTurns(messages) :
          i > Len(prev) /\ ~CarriesMarker(messages[i])

\* C30: a tool_use of the tool "playwright" with method "goto" and one URL
\* argument is handed to the tool: the registry does not reject it.
C30_GotoIsDispatched ==
    ~(/\ pc = "raised"
      /\ AtToolCall
      /\ CurrentBlock.name = "playwright"
      /\ ToolInput(CurrentBlock.input).method = PStr("goto")
      /\ ToolInput(CurrentBlock.input).nargs = 1
      /\ exc = "ValueError")

\* C31: whenever the sampling loop returns, the returned history is not empty
\* and its last message is the assistant message of the final model response
\* (the one the caller reads the task result from): it never ends with a user
\* turn of tool results, and every turn of the loop before the last one added
\* an assistant turn and a user turn.
C31_ReturnedHistoryEndsWithAssistant ==
    pc = "done" =>
        /\ Len(messages) = Len(prev) + 2 * (calls - 1) + 1
        /\ Last(messages).role = "assistant"
        /\ ~Last(messages).is_str
        /\ \A j \in 1..Len(Last(messages).content) :
               Last(messages).content[j].type # "tool_result"

\* C31 witness: the loop returned after a turn with a tool call and a second,
\* final response.
C31_Witness ==
    /\ pc = "done"
    /\ calls = 2
    /\ Len(messages) = Len(prev) + 3
    /\ messages[Len(messages) - 1].role = "user"
    /\ messages[Len(messages) - 1].content[1].type = "tool_result"
    /\ Last(messages).role = "assistant"

\* a call of the computer tool of any version has ended
AnyToolDone == pc \in {"tool_out", "tool2024_out"}

\* C32: a computer-tool call that ends in ToolError (a missing, forbidden or
\* out-of-range parameter, or an invalid action) has made no call on the
\* page: no pointer, keyboard, wheel, evaluate or screenshot call.
C32_RejectedCallMakesNoPageCall ==
    (AnyToolDone /\ ret.outcome.kind = "ToolError") => ret.page = << >>

\* C32 witness: a mouse_move with a valid coordinate and a text was rejected
\* without a page call.
C32_Witness ==
    /\ AnyToolDone
    /\ arg.action = PStr("mouse_move")
    /\ ValidPair(arg.coordinate)
    /\ arg.text = PStr("a")
    /\ ret.outcome.kind = "ToolError"
    /\ ret.page = << >>

\* C33: every key-down or mouse-button-down that one computer-tool call
\* carries out is followed, within that call, by a key-up or button-up,
\* whether the call returns or raises; only left_mouse_down leaves a button
\* held.
C33_EveryDownIsReleased ==
    AnyToolDone =>
        \A k \in 1..Len(ret.page) :
            /\ ret.page[k].op = "keyboard.down" =>
                   \E m \in (k + 1)..Len(ret.page) : ret.page[m].op = "keyboard.up"
            /\ (ret.page[k].op = "mouse.down" /\ arg.action.s # "left_mouse_down") =>
                   \E m \in (k + 1)..Len(ret.page) : ret.page[m].op = "mouse.up"

\* C34 as stated: every computer-tool action that returns, other than
\* cursor_position, returns a ToolResult with a screenshot image.
C34_EveryReturnCarriesImage ==
    (AnyToolDone /\ ret.outcome.kind = "result"
         /\ arg.action.s # "cursor_position") =>
        ret.outcome.result.base64_image # 0

\* C34: every computer-tool action that returns, other than cursor_position
\* and other than a type action with empty text, returns a ToolResult with a
\* screenshot image; type with empty text types nothing, takes no screenshot
\* and returns a ToolResult with empty output, empty error and no image, and
\* cursor_position returns a text and no image.
C34_ReturnCarriesImageUnlessNothingTyped ==
    (AnyToolDone /\ ret.outcome.kind = "result") =>
        IF arg.action.s = "cursor_position"
        THEN ret.outcome.result.base64_image = 0 /\ ret.outcome.result.output # ""
        ELSE IF arg.action.s = "type" /\ arg.text = PStr("")
        THEN /\ ret.outcome.result = ToolResult("", "", 0)
             /\ ret.page = << >>
        ELSE /\ ret.outcome.result = ToolResult("", "", 1)
             /\ ret.page # << >>
             /\ Last(ret.page).op = "screenshot"

\* C34 witness: a type action with empty text returned without an image.
C34_Witness ==
    /\ AnyToolDone
    /\ arg.action = PStr("type")
    /\ arg.text = PStr("")
    /\ ret.outcome.kind = "result"
    /\ ret.outcome.result.base64_image = 0

\* C35: for every ToolResult whose error is absent or the empty string, both
\* converters build a block with is_error = false whose content holds the
\* result's image whenever the result has one (the result of a type action
\* has error = "" and a screenshot).
C35_NoErrorKeepsImage ==
    (pc \in {"loop_out", "utils_out"} /\ ~ErrorSet(arg)) =>
        /\ ~ret.is_error
        /\ ~IsNone(arg.base64_image) =>
               \E j \in 1..Len(ret.content) :
                   ret.content[j] = InnerImage(arg.base64_image.n)

\* C36: the two context policies are independent: injection followed by
\* pruning gives the history that pruning followed by injection gives, for
\* every history, image limit and removal chunk.
C36_PoliciesCommute ==
    /\ pc = "inject_filter" =>
           messages = loop_inject_prompt_caching(
                          loop_maybe_filter_to_n_most_recent_images(
                              prev, only_n_most_recent_images,
                              image_truncation_threshold))
    /\ pc = "filter_inject" =>
           messages = loop_maybe_filter_to_n_most_recent_images(
                          loop_inject_prompt_caching(prev),
                          only_n_most_recent_images, image_truncation_threshold)

\* C36 witness: injection then pruning was applied to a history on which each
\* policy changes something: images were removed and a marker was set.
C36_Witness ==
    /\ pc = "inject_filter"
    /\ TotalImages(messages) < TotalImages(prev)
    /\ MarkerPositions(messages) # MarkerPositions(prev)
    /\ MarkerPositions(prev) # {}

RECURSIVE WithoutTrailingNewlines(_)
\* the text without the newlines it ends with, a newline being the newline
\* character or the two characters backslash, n
WithoutTrailingNewlines(text) ==
    IF str_endswith(text, << "\n" >>)
    THEN WithoutTrailingNewlines(SubSeq(text, 1, Len(text) - 1))
    ELSE IF str_endswith(text, << "\\", "n" >>)
    THEN WithoutTrailingNewlines(SubSeq(text, 1, Len(text) - 2))
    ELSE text

\* C37: a TYPE action whose text ends with a newline (the newline character
\* or the two characters backslash-n) types the text without its trailing
\* newlines, every other character kept, and then presses Enter once; a
\* text without trailing newline is typed unchanged and Enter is not pressed.
C37_TypesTextWithoutTrailingNewline ==
    pc = "type_out" =>
        LET text == type_text_of(arg)
        IN  IF WithoutTrailingNewlines(text) # text
            THEN ret = << [op |-> "type_text",
                           text |-> WithoutTrailingNewlines(text)],
                          [op |-> "press_key", text |-> << "Return" >>] >>
            ELSE ret = << [op |-> "type_text", text |-> text] >>

\* floor(coordinate * size / 1000)
FloorScaled(coordinate, size) == (coordinate * size) \div NormalizedRange

\* C39: for every integer model coordinate (x, y), below 0 and above 1000
\* included, and every viewport of width W >= 2 and height H >= 2, the
\* denormalization returns 1 <= screen_x <= W - 1 and 1 <= screen_y <= H - 1,
\* equal to floor(x * W / 1000) and floor(y * H / 1000) whenever those lie in
\* that range.
C39_DenormalizedInsideViewport ==
    (/\ pc = "denorm_out"
     /\ arg.viewport.viewport_width >= 2
     /\ arg.viewport.viewport_height >= 2) =>
        LET W == arg.viewport.viewport_width
            H == arg.viewport.viewport_height
        IN  /\ ret[1] \in 1..(W - 1)
            /\ ret[2] \in 1..(H - 1)
            /\ FloorScaled(arg.x, W) \in 1..(W - 1) =>
                   ret[1] = FloorScaled(arg.x, W)
            /\ FloorScaled(arg.y, H) \in 1..(H - 1) =>
                   ret[2] = FloorScaled(arg.y, H)

\* C39 witness: a coordinate left of the screen was clamped to 1 while the
\* other one, strictly inside, came back as its rounded-down scaling.
C39_Witness ==
    /\ pc = "denorm_out"
    /\ arg.viewport.viewport_width >= 2
    /\ arg.x < 0
    /\ ret[1] = 1
    /\ FloorScaled(arg.y, arg.viewport.viewport_height)
           \in 2..(arg.viewport.viewport_height - 2)
    /\ (arg.y * arg.viewport.viewport_height) % NormalizedRange # 0
    /\ ret[2] = FloorScaled(arg.y, arg.viewport.viewport_height)

\* the delete_by_id calls that the service received for browser id
DeletesOf(id) == Cardinality({ i \in 1..Len(arg.deletes) : arg.deletes[i] = id })

\* C38: once the context of a KernelBrowserSession that created a browser has
\* been left, normally or through an exception and whether or not the delete
\* call failed, the browser was deleted exactly once, session_id is None, the
\* kernel property raises, and a call of the action handler or of the
\* screenshot provider raises RuntimeError without reaching the session.
C38_ExitCleansUp ==
    (pc = "session" /\ arg.where = "exited") =>
        /\ \A id \in 1..arg.created : DeletesOf(id) = 1 /\ id \notin arg.live
        /\ arg.session_id = 0
        /\ ~arg._kernel
        /\ ret.call \in {"kernel", "handler", "provider"} =>
               ret.raised = "RuntimeError" /\ ret.reached = 0

====
